---- MODULE Spec2Model ----
(***************************************************************************)
(* Link-triggered download orchestrator of Watsapp_RSS                    *)
(* (src/backend/sele_vd_downloader3.py): LinkDownloadManager, the         *)
(* completion detector of SeleniumVideoDownloader, MessagesFileHandler    *)
(* and PollingMonitor, run as in main(): one forced start-up run, then    *)
(* the watchdog event thread and the backup poll thread.                  *)
(*                                                                         *)
(* Spec       the orchestrator with an append-only stream of link          *)
(*            messages and a browser that writes the download directory.   *)
(* SpecWatch  the change-aware watcher after start-up, with a link-free    *)
(*            message store that is rewritten and touched while the        *)
(*            clock runs in seconds.                                       *)
(* SpecBurst  the same watcher with one burst of content-changing writes   *)
(*            that all fall into one debounce window.                      *)
(* SpecWait   one call of wait_for_download_completion on a clock of       *)
(*            tenths of a second, while files appear, grow and are renamed *)
(*            in the download directory.                                   *)
(* SpecCatalog  media.json as text on disk under update_media_json written *)
(*            out step by step, failing writes and restarts of the program.*)
(* SpecTorn   the orchestrator after start-up over a message store whose   *)
(*            owner writes each new message in two steps.                  *)
(* SpecLock   the same orchestrator with processing_lock taken and released *)
(*            as process_new_links does.                                   *)
(* SpecFlow   one call of download(): the Google Drive flow (also as in    *)
(*            src/selenium/sele_vd_downloader3.py) and the WeTransfer flow *)
(*            over pages given as lists of elements.                       *)
(* SpecClassify  update_media_json's classification of one file name.      *)
(* SpecExtract  extract_links_from_messages over arbitrary messages.       *)
(* SpecReplace  the watcher over a message store replaced by files that    *)
(*            carry their own modification times.                          *)
(* SpecStuck  one call of wait_for_download_completion whose directory    *)
(*            reads may fail, scheduled fairly.                            *)
(* SpecRepeat the orchestrator over a stream in which a link may be       *)
(*            posted again.                                                *)
(* SpecForced the watcher with process_new_links(force=True) called while  *)
(*            the monitors run.                                            *)
(***************************************************************************)
EXTENDS Integers, Sequences, FiniteSets, TLC

(* ------------------------------ bounds -------------------------------- *)
MaxMsgs == 2      \* longest message store (number of messages)
MaxWrites == 5    \* writes to and touches of the message store
MaxQueue == 1     \* watchdog events waiting for the handler thread

(* ------------------------- program constants -------------------------- *)
DEBOUNCE_COOLDOWN == 3
HANDLER_DELAY == 2
BACKUP_POLL_INTERVAL == 30

Threads == {"main", "event", "poll"}
Workers == {"event", "poll"}

(* ------------------------ message store content ----------------------- *)
GD_URL == "https://drive.google.com/file/d/a1"
WT_URL == "https://we.tl/t-b2"
URLS == {GD_URL, WT_URL}

\* Records of the message store: only type "chat" with a body are
\* consulted. A body is the sequence of its words (the text between
\* blanks).
ChatGD == [type |-> "chat", body |-> <<GD_URL>>]
ChatWT == [type |-> "chat", body |-> <<WT_URL>>]
Sticker == [type |-> "sticker", body |-> <<>>]

\* Link-free contents of at most MaxMsgs messages.
RECURSIVE Stickers(_)
Stickers(n) == IF n = 0 THEN <<>> ELSE Append(Stickers(n - 1), Sticker)

LinkFreeContents == {Stickers(n) : n \in 0..MaxMsgs}

\* st_size of the serialised message store: both links have the same length.
MsgBytes(m) == IF m.type = "chat" THEN 2 ELSE 1

RECURSIVE StSize(_)
StSize(content) ==
    IF content = <<>> THEN 0
    ELSE MsgBytes(Head(content)) + StSize(Tail(content))

\* Words of message bodies: the two links, each also followed by
\* punctuation or put in brackets, a Drive folder link and a link without
\* https, which no pattern matches, and a plain word.
GD_URL_DOT == "https://drive.google.com/file/d/a1."
WT_URL_BRACKETS == "(https://we.tl/t-b2)!"
GD_FOLDER == "https://drive.google.com/drive/folders/c3"
WT_HTTP == "http://we.tl/t-b2"
Words == {GD_URL, WT_URL, GD_URL_DOT, WT_URL_BRACKETS, GD_FOLDER, WT_HTTP, "hello"}

\* lines 125-130: the patterns, in the order they are tried.
link_patterns ==
    << "https://drive\\.google\\.com/file/d/[^/\\s]+[^\\s]*",
       "https://drive\\.google\\.com/open\\?id=[^\\s]+",
       "https://we\\.tl/t-[^\\s]+",
       "https://wetransfer\\.com/downloads/[^\\s]+" >>

\* re.findall(pattern, word): the text the pattern matches in the word (to
\* the end of the word, the patterns run up to the next blank), or "".
Match(pattern, word) ==
    IF pattern = link_patterns[1]
    THEN (IF word = GD_URL THEN GD_URL
          ELSE IF word = GD_URL_DOT THEN GD_URL_DOT
          ELSE "")
    ELSE IF pattern = link_patterns[3]
    THEN (IF word = WT_URL THEN WT_URL
          ELSE IF word = WT_URL_BRACKETS THEN "https://we.tl/t-b2)!"
          ELSE "")
    ELSE ""

\* line 140: match.rstrip('.,;!?)')
rstrip(match) ==
    IF match = GD_URL_DOT THEN GD_URL
    ELSE IF match = "https://we.tl/t-b2)!" THEN WT_URL
    ELSE match

\* lines 137-149: the links one pattern finds in a body, in word order.
RECURSIVE FindAll(_, _)
FindAll(pattern, body) ==
    IF body = <<>> THEN <<>>
    ELSE (IF Match(pattern, Head(body)) = "" THEN <<>>
          ELSE <<rstrip(Match(pattern, Head(body)))>>) \o FindAll(pattern, Tail(body))

\* Every message consulted, whatever its type.
Consulted_AnyType(m) == m.body /= <<>>

\* line 133: message.get('type') == 'chat' and message.get('body')
Consulted(m) == m.type = "chat" /\ m.body /= <<>>

\* lines 132-149: the links of one message, pattern by pattern.
LinksOfMessage(m) ==
    IF Consulted(m)
    THEN FindAll(link_patterns[1], m.body) \o FindAll(link_patterns[2], m.body)
           \o FindAll(link_patterns[3], m.body) \o FindAll(link_patterns[4], m.body)
    ELSE <<>>

\* extract_links_from_messages, lines 132-152: the links of the messages in
\* message order, duplicates kept.
RECURSIVE LinksOf(_)
LinksOf(messages) ==
    IF messages = <<>> THEN <<>>
    ELSE LinksOfMessage(Head(messages)) \o LinksOf(Tail(messages))

\* The cut-off tail of a text that its writer has not finished: json.load
\* raises on a store that ends in it.
Torn == [type |-> "torn", body |-> <<>>]
IsTorn(content) == \E i \in 1..Len(content) : content[i] = Torn

\* lines 114-156: an exception of json.load is answered with no links.
extract_links_from_messages(content) ==
    IF IsTorn(content) THEN <<>> ELSE LinksOf(content)

(* ------------------------------ catalog ------------------------------- *)
\* hashlib.md5(url.encode()).hexdigest(): distinct digests for the links.
md5(url) == IF url = GD_URL THEN "md5_9c1a" ELSE "md5_04be"

\* The text of media.json as a sequence of tokens: json.dump writes "[",
\* one object per entry, "]". A file that does not exist is NoFile.
LBRACKET == [tok |-> "["]
RBRACKET == [tok |-> "]"]
JsonObject(entry) == [tok |-> "object", val |-> entry]
NoFile == <<[tok |-> "no such file"]>>

\* json.dump(media_data, f, indent=2, ensure_ascii=False)
json_dump(data) ==
    <<LBRACKET>> \o [i \in 1..Len(data) |-> JsonObject(data[i])] \o <<RBRACKET>>

\* json.load(f) returns: the text is one complete array of objects.
json_parses(text) ==
    /\ Len(text) >= 2
    /\ text[1] = LBRACKET
    /\ text[Len(text)] = RBRACKET
    /\ \A i \in 2..(Len(text) - 1) : text[i].tok = "object"

\* json.load(f) of a text that parses: the list of its objects.
json_load(text) == [i \in 1..(Len(text) - 2) |-> text[i + 1].val]

\* lines 100-102 and 175-177: the file is absent, or it is opened and
\* json.load returns.
CatalogReadable(file) == file = NoFile \/ json_parses(file)

\* The entries a readable catalog file holds.
CatalogEntries(file) ==
    IF file /= NoFile /\ json_parses(file) THEN json_load(file) ELSE <<>>

\* load_processed_links that adds nothing to the index.
load_processed_links_Skipped(file) == {}

\* load_processed_links, lines 97-112: the digests of the source links of
\* the catalog's entries; an exception (unparsable file) is swallowed and
\* leaves the index empty.
load_processed_links(file) ==
    {md5(CatalogEntries(file)[i].source_link) : i \in 1..Len(CatalogEntries(file))}

(* -------------------------- download directory ------------------------ *)
FINAL_A == "clip.mp4"
PARTIAL_A == "clip.mp4.crdownload"
FINAL_B == "notes.pdf"
HIDDEN_C == ".com.google.Chrome.Ab12"
FileNames == {FINAL_A, PARTIAL_A, FINAL_B, HIDDEN_C}
ABSENT == -1

\* glob("*.crdownload") / glob("*.tmp")
IsPartial(name) == name = PARTIAL_A

\* The characters of the names of the download directory.
PathChars(name) ==
    IF name = FINAL_A THEN <<"c", "l", "i", "p", ".", "m", "p", "4">>
    ELSE IF name = FINAL_B THEN <<"n", "o", "t", "e", "s", ".", "p", "d", "f">>
    ELSE IF name = HIDDEN_C
    THEN <<".", "c", "o", "m", ".", "g", "o", "o", "g", "l", "e", ".", "C", "h", "r", "o", "m", "e", ".", "A", "b", "1", "2">>
    ELSE <<"c", "l", "i", "p", ".", "m", "p", "4", ".", "c", "r", "d", "o", "w", "n", "l", "o", "a", "d">>

\* Path.suffix: the name from its last dot on, if that dot is neither the
\* first nor the last character; otherwise the empty string.
suffix(chars) ==
    LET dots == {i \in 1..Len(chars) : chars[i] = "."}
        last == CHOOSE i \in dots : \A j \in dots : j <= i
    IN IF dots = {} THEN <<>>
       ELSE IF last = 1 \/ last = Len(chars) THEN <<>>
       ELSE SubSeq(chars, last, Len(chars))

\* str.lower() on the characters met in file names.
UPPER == <<"A", "B", "C", "D", "E", "F", "G", "H", "I", "J", "K", "L", "M", "N", "O", "P", "Q", "R", "S", "T", "U", "V", "W", "X", "Y", "Z">>
LOWER == <<"a", "b", "c", "d", "e", "f", "g", "h", "i", "j", "k", "l", "m", "n", "o", "p", "q", "r", "s", "t", "u", "v", "w", "x", "y", "z">>
lower(chars) ==
    [i \in 1..Len(chars) |->
        IF \E k \in 1..Len(UPPER) : UPPER[k] = chars[i]
        THEN LOWER[CHOOSE k \in 1..Len(UPPER) : UPPER[k] = chars[i]]
        ELSE chars[i]]

\* The extension taken as the file name spells it.
file_extension_AsSpelled(chars) == suffix(chars)

\* update_media_json, line 188: file_path.suffix.lower()
file_extension(chars) == lower(suffix(chars))

\* lines 191-192
video_extensions ==
    {<<".", "m", "p", "4">>, <<".", "a", "v", "i">>, <<".", "m", "o", "v">>,
     <<".", "m", "k", "v">>, <<".", "w", "m", "v">>, <<".", "f", "l", "v">>,
     <<".", "w", "e", "b", "m">>, <<".", "m", "4", "v">>,
     <<".", "3", "g", "p">>}
image_extensions ==
    {<<".", "j", "p", "g">>, <<".", "j", "p", "e", "g">>,
     <<".", "p", "n", "g">>, <<".", "g", "i", "f">>, <<".", "b", "m", "p">>,
     <<".", "w", "e", "b", "p">>}

\* lines 194-199
media_type(ext) ==
    IF ext \in video_extensions THEN "video"
    ELSE IF ext \in image_extensions THEN "image"
    ELSE "document"

\* set(f.name for f in download_dir.iterdir() if f.is_file())
Listing(dir) == {n \in FileNames : dir[n] /= ABSENT}

\* f.name.startswith('.')
IsHidden(name) == name = HIDDEN_C

\* the listings of the completion detector after its snapshot:
\* f.is_file() and not f.name.startswith('.')
CurrentFiles(dir) == {n \in Listing(dir) : ~IsHidden(n)}

VARIABLES
    \* message store file (external collaborator)
    file_content, file_mtime,
    \* WatchState of LinkDownloadManager
    last_messages_content, last_file_size, last_modification_time,
    \* catalog: in-memory index and persisted media.json
    processed_links, media_file,
    \* download directory
    download_dir,
    \* single-flight guard
    is_processing,
    \* threads: position and locals of process_new_links / download_link
    pc, cur_stat, new_links, idx, files_before, driver, success,
    downloaded_files,
    \* locals of wait_for_download_completion
    initial_files, initial_sizes, phase,
    \* live browser sessions (Chrome processes)
    sessions,
    \* watchdog handler and poll loop: queued events, seconds since
    \* last_event_time (capped at the cooldown), remaining sleeps
    pending_events, last_event_age, handler_sleep, poll_sleep,
    \* environment budget
    writes,
    \* history: links download_link was called for, a touch met by the
    \* change check of the current run, the writes of the burst being
    \* watched, its age, runs that passed the change check during it
    attempted, touch_rejected, burst, burst_clock, gate_runs,
    \* one timed call of wait_for_download_completion: tenths of a second
    \* since start_time, what has happened to the directory since the
    \* snapshot (dir_events),
    \* (elapsed), the time of the next pass of its loop
    elapsed, wake_at, dir_events,
    \* update_media_json written out step by step: its list media_data;
    \* starts of the program after the first
    media_data, restarts,
    \* history: a run has read the message store while it was being written
    read_failed,
    \* the thread inside "with self.processing_lock", or "free"
    processing_lock,
    \* extract_links_from_messages called on its own: the list it returns
    all_links,
    \* update_media_json on one file: the characters of its name
    file_path,
    \* the provider flows of SeleniumVideoDownloader: the source file whose
    \* flow runs, the page the driver shows, what the flow has done
    variant, page, flow_log,
    \* history: links whose last attempt failed, the message store content
    \* not having changed since
    failed_unchanged

vars == <<file_content, file_mtime, last_messages_content, last_file_size,
          last_modification_time, processed_links, media_file, download_dir,
          is_processing, pc, cur_stat, new_links, idx, files_before, driver,
          sessions, success, downloaded_files, initial_files, initial_sizes,
          phase, pending_events, last_event_age, handler_sleep, poll_sleep,
          writes, attempted, touch_rejected, burst, burst_clock, gate_runs,
          elapsed, wake_at, dir_events, media_data, restarts, read_failed,
          processing_lock, all_links, file_path, variant, page, flow_log,
          failed_unchanged>>

NoStat == [mtime |-> 0, size |-> 0]
EmptyDir == [n \in FileNames |-> ABSENT]
Min(a, b) == IF a < b THEN a ELSE b
Dec(x) == IF x > 0 THEN x - 1 ELSE 0

(* ------------------------------- Init --------------------------------- *)
\* No thread is inside the locked section, no call of the extractor, of the
\* classification or of a provider flow is followed on its own.
NoPage == [kind |-> "blank", title |-> "", source |-> "", elements |-> <<>>]
AtRest ==
    /\ processing_lock = "free"
    /\ all_links = <<>>
    /\ file_path = <<>>
    /\ variant = "backend"
    /\ page = NoPage
    /\ flow_log = <<>>

\* What every start has in common: empty catalog and download directory,
\* WatchState as stored by update_file_state() in __init__, no thread in a
\* run.
Constructed ==
    /\ file_mtime = 0
    /\ last_messages_content = file_content
    /\ last_file_size = StSize(file_content)
    /\ last_modification_time = file_mtime
    /\ media_file = NoFile
    /\ processed_links = load_processed_links(media_file)
    /\ download_dir = EmptyDir
    /\ is_processing = FALSE
    /\ cur_stat = [t \in Threads |-> NoStat]
    /\ new_links = [t \in Threads |-> <<>>]
    /\ idx = [t \in Threads |-> 0]
    /\ files_before = [t \in Threads |-> {}]
    /\ driver = [t \in Threads |-> FALSE]
    /\ sessions = 0
    /\ success = [t \in Threads |-> FALSE]
    /\ downloaded_files = [t \in Threads |-> {}]
    /\ initial_files = [t \in Threads |-> {}]
    /\ initial_sizes = [t \in Threads |-> EmptyDir]
    /\ phase = [t \in Threads |-> "none"]
    /\ pending_events = 0
    /\ last_event_age = DEBOUNCE_COOLDOWN
    /\ handler_sleep = 0
    /\ poll_sleep = 0
    /\ writes = 0
    /\ attempted = {}
    /\ touch_rejected = FALSE
    /\ burst = 0
    /\ burst_clock = 0
    /\ gate_runs = 0
    /\ elapsed = 0
    /\ wake_at = 0
    /\ dir_events = {}
    /\ media_data = <<>>
    /\ restarts = 0
    /\ read_failed = FALSE
    /\ failed_unchanged = {}
    /\ AtRest

\* State after LinkDownloadManager.__init__ in main(): main is about to
\* call process_new_links(force=True).
Init ==
    /\ file_content \in {<<>>, <<ChatGD>>}
    /\ pc = [t \in Threads |-> IF t = "main" THEN "start" ELSE "idle"]
    /\ Constructed

\* State after the forced start-up run over a message store without
\* links: the observer and the backup poll loop have just been started.
InitWatch ==
    /\ file_content = <<>>
    /\ pc = [t \in Threads |-> IF t = "main" THEN "done" ELSE "idle"]
    /\ Constructed

\* The observer and the backup PollingMonitor are started only after the
\* forced start-up run of main() has returned.
MonitorsStarted == pc["main"] = "done"

(* ------------------- environment: message store owner ------------------ *)
\* A watchdog notification for a modification; delivery is not reliable.
Notified(q) ==
    IF MonitorsStarted THEN {q, Min(q + 1, MaxQueue)} ELSE {q}

\* The message stream is append-only: one more chat message with a link,
\* another link than the message before it.
AppendMessage ==
    /\ Len(file_content) < MaxMsgs
    /\ \E m \in {ChatGD, ChatWT} :
          /\ IF file_content = <<>> THEN TRUE
             ELSE m /= file_content[Len(file_content)]
          /\ file_content' = Append(file_content, m)
    /\ file_mtime' = file_mtime + 1
    /\ pending_events' \in Notified(pending_events)
    /\ writes' = writes + 1
    /\ failed_unchanged' = {}
    /\ UNCHANGED <<last_messages_content, last_file_size,
                   last_modification_time, processed_links, media_file,
                   download_dir, is_processing, pc, cur_stat, new_links, idx,
                   files_before, driver, sessions, success, downloaded_files,
                   initial_files, initial_sizes, phase, last_event_age,
                   handler_sleep, poll_sleep, attempted, touch_rejected,
                   burst, burst_clock, gate_runs, elapsed, wake_at,
                   dir_events, media_data, restarts, read_failed,
                   processing_lock, all_links, file_path, variant, page,
                   flow_log>>

\* Nothing is in progress and nothing is waiting to be noticed.
Quiescent ==
    /\ \A t \in Workers : pc[t] = "idle"
    /\ ~is_processing
    /\ pending_events = 0
    /\ handler_sleep = 0
    /\ last_event_age = DEBOUNCE_COOLDOWN
    /\ file_content = last_messages_content
    /\ file_mtime = last_modification_time

\* The owner of the message store rewrites it with different, link-free
\* content c.
WriteLinkFree(c) ==
    /\ writes < MaxWrites
    /\ c /= file_content
    /\ file_content' = c
    /\ file_mtime' = file_mtime + 1
    /\ pending_events' \in Notified(pending_events)
    /\ writes' = writes + 1

\* A content-changing write at an arbitrary time.
RewriteLinkFree ==
    /\ \E c \in LinkFreeContents : WriteLinkFree(c)
    /\ failed_unchanged' = {}
    /\ UNCHANGED <<last_messages_content, last_file_size,
                   last_modification_time, processed_links, media_file,
                   download_dir, is_processing, pc, cur_stat, new_links, idx,
                   files_before, driver, sessions, success, downloaded_files,
                   initial_files, initial_sizes, phase, last_event_age,
                   handler_sleep, poll_sleep, attempted, touch_rejected,
                   burst, burst_clock, gate_runs, elapsed, wake_at,
                   dir_events, media_data, restarts, read_failed,
                   processing_lock, all_links, file_path, variant, page,
                   flow_log>>

\* A content-changing write of a burst: the first goes into a quiescent
\* system, every further one comes within one cooldown window of the first.
\* burst counts the writes, burst_clock is the age of the first.
BurstWrite ==
    /\ IF burst = 0 THEN Quiescent ELSE burst_clock < DEBOUNCE_COOLDOWN
    /\ \E c \in LinkFreeContents : WriteLinkFree(c)
    /\ burst' = burst + 1
    /\ failed_unchanged' = {}
    /\ UNCHANGED <<last_messages_content, last_file_size,
                   last_modification_time, processed_links, media_file,
                   download_dir, is_processing, pc, cur_stat, new_links, idx,
                   files_before, driver, sessions, success, downloaded_files,
                   initial_files, initial_sizes, phase, last_event_age,
                   handler_sleep, poll_sleep, attempted, touch_rejected,
                   burst_clock, gate_runs, elapsed, wake_at, dir_events,
                   media_data, restarts, read_failed, processing_lock,
                   all_links, file_path, variant, page, flow_log>>

\* The file is touched: new modification time, identical bytes.
TouchMessages ==
    /\ writes < MaxWrites
    /\ file_mtime' = file_mtime + 1
    /\ pending_events' \in Notified(pending_events)
    /\ writes' = writes + 1
    /\ UNCHANGED <<file_content, last_messages_content, last_file_size,
                   last_modification_time, processed_links, media_file,
                   download_dir, is_processing, pc, cur_stat, new_links, idx,
                   files_before, driver, sessions, success, downloaded_files,
                   initial_files, initial_sizes, phase, last_event_age,
                   handler_sleep, poll_sleep, attempted, touch_rejected,
                   burst, burst_clock, gate_runs, elapsed, wake_at,
                   dir_events, media_data, restarts, read_failed,
                   processing_lock, all_links, file_path, variant, page,
                   flow_log, failed_unchanged>>

\* One second passes while the handler's cooldown or delay is running. The
\* timers are lower bounds on when a thread may go on (time.sleep and the
\* cooldown test) and nothing forces a thread to act as soon as it may, so
\* stepping the clock only here and in LongWait loses no behaviour.
Tick ==
    /\ last_event_age < DEBOUNCE_COOLDOWN \/ handler_sleep > 0
    /\ last_event_age' = Min(last_event_age + 1, DEBOUNCE_COOLDOWN)
    /\ handler_sleep' = Dec(handler_sleep)
    /\ poll_sleep' = Dec(poll_sleep)
    /\ burst_clock' = IF burst >= 1 THEN Min(burst_clock + 1, DEBOUNCE_COOLDOWN) ELSE burst_clock
    /\ UNCHANGED <<file_content, file_mtime, last_messages_content,
                   last_file_size, last_modification_time, processed_links,
                   media_file, download_dir, is_processing, pc, cur_stat,
                   new_links, idx, files_before, driver, sessions, success,
                   downloaded_files, initial_files, initial_sizes, phase,
                   pending_events, writes, attempted, touch_rejected, burst,
                   gate_runs, elapsed, wake_at, dir_events, media_data,
                   restarts, read_failed, processing_lock, all_links,
                   file_path, variant, page, flow_log, failed_unchanged>>

\* A long quiet period: every sleep and the cooldown have run out.
LongWait ==
    /\ last_event_age < DEBOUNCE_COOLDOWN \/ handler_sleep > 0 \/ poll_sleep > 0
    /\ last_event_age' = DEBOUNCE_COOLDOWN
    /\ handler_sleep' = 0
    /\ poll_sleep' = 0
    /\ burst_clock' = IF burst >= 1 THEN DEBOUNCE_COOLDOWN ELSE burst_clock
    /\ UNCHANGED <<file_content, file_mtime, last_messages_content,
                   last_file_size, last_modification_time, processed_links,
                   media_file, download_dir, is_processing, pc, cur_stat,
                   new_links, idx, files_before, driver, sessions, success,
                   downloaded_files, initial_files, initial_sizes, phase,
                   pending_events, writes, attempted, touch_rejected, burst,
                   gate_runs, elapsed, wake_at, dir_events, media_data,
                   restarts, read_failed, processing_lock, all_links,
                   file_path, variant, page, flow_log, failed_unchanged>>

(* --------------------------- LinkDownloadManager ----------------------- *)
\* is_link_processed, lines 158-161
is_link_processed(url) == md5(url) \in processed_links

force(t) == t = "main"

\* process_new_links, lines 280-285: the section under processing_lock. A
\* non-forced call that finds the busy flag set returns at once.
Accepted_NoBusyCheck(t) == TRUE

Accepted(t) == force(t) \/ ~is_processing

EnterProcessing(t) ==
    /\ is_processing' = TRUE
    /\ pc' = [pc EXCEPT ![t] = IF force(t) THEN "extract" ELSE "gate_stat"]

\* The skipped call, leaving through the finally clause of the body.
SkipCall_ThroughFinally(t) ==
    /\ pc' = [pc EXCEPT ![t] = "dropped"]
    /\ is_processing' = FALSE

\* lines 281-283: "Already processing links, skipping..." and return, from
\* inside the with block and before the try block.
SkipCall(t) ==
    /\ pc' = [pc EXCEPT ![t] = "dropped"]
    /\ UNCHANGED is_processing

\* main(): download_manager.process_new_links(force=True)
MainStart ==
    /\ pc["main"] = "start"
    /\ Accepted("main")
    /\ EnterProcessing("main")
    /\ UNCHANGED <<file_content, file_mtime, last_messages_content,
                   last_file_size, last_modification_time, processed_links,
                   media_file, download_dir, cur_stat, new_links, idx,
                   files_before, driver, sessions, success, downloaded_files,
                   initial_files, initial_sizes, phase, pending_events,
                   last_event_age, handler_sleep, poll_sleep, writes,
                   attempted, touch_rejected, burst, burst_clock, gate_runs,
                   elapsed, wake_at, dir_events, media_data, restarts,
                   read_failed, processing_lock, all_links, file_path,
                   variant, page, flow_log, failed_unchanged>>

\* on_modified, line 745: current_time - last_event_time < 3
Debounced_Never == FALSE

Debounced == last_event_age < DEBOUNCE_COOLDOWN

\* MessagesFileHandler.on_modified, lines 743-748: the debounce. An event
\* handled less than 3 seconds after the last accepted one is discarded.
EventDispatch ==
    /\ MonitorsStarted
    /\ pc["event"] = "idle"
    /\ pending_events > 0
    /\ pending_events' = pending_events - 1
    /\ IF Debounced
       THEN UNCHANGED <<last_event_age, handler_sleep, pc>>
       ELSE /\ last_event_age' = 0
            /\ handler_sleep' = HANDLER_DELAY
            /\ pc' = [pc EXCEPT !["event"] = "sleep"]
    /\ UNCHANGED <<file_content, file_mtime, last_messages_content,
                   last_file_size, last_modification_time, processed_links,
                   media_file, download_dir, is_processing, cur_stat,
                   new_links, idx, files_before, driver, sessions, success,
                   downloaded_files, initial_files, initial_sizes, phase,
                   poll_sleep, writes, attempted, touch_rejected, burst,
                   burst_clock, gate_runs, elapsed, wake_at, dir_events,
                   media_data, restarts, read_failed, processing_lock,
                   all_links, file_path, variant, page, flow_log,
                   failed_unchanged>>

\* on_modified, lines 753-756: after the 2 second delay, process_new_links().
EventTrigger ==
    /\ pc["event"] = "sleep"
    /\ handler_sleep = 0
    /\ IF Accepted("event")
       THEN EnterProcessing("event")
       ELSE SkipCall("event")
    /\ UNCHANGED <<file_content, file_mtime, last_messages_content,
                   last_file_size, last_modification_time, processed_links,
                   media_file, download_dir, cur_stat, new_links, idx,
                   files_before, driver, sessions, success, downloaded_files,
                   initial_files, initial_sizes, phase, pending_events,
                   last_event_age, handler_sleep, poll_sleep, writes,
                   attempted, touch_rejected, burst, burst_clock, gate_runs,
                   elapsed, wake_at, dir_events, media_data, restarts,
                   read_failed, processing_lock, all_links, file_path,
                   variant, page, flow_log, failed_unchanged>>

\* PollingMonitor._poll_loop: process_new_links(), then sleep(poll_interval).
PollTrigger ==
    /\ MonitorsStarted
    /\ pc["poll"] = "idle"
    /\ poll_sleep = 0
    /\ IF Accepted("poll")
       THEN EnterProcessing("poll")
       ELSE SkipCall("poll")
    /\ UNCHANGED <<file_content, file_mtime, last_messages_content,
                   last_file_size, last_modification_time, processed_links,
                   media_file, download_dir, cur_stat, new_links, idx,
                   files_before, driver, sessions, success, downloaded_files,
                   initial_files, initial_sizes, phase, pending_events,
                   last_event_age, handler_sleep, poll_sleep, writes,
                   attempted, touch_rejected, burst, burst_clock, gate_runs,
                   elapsed, wake_at, dir_events, media_data, restarts,
                   read_failed, processing_lock, all_links, file_path,
                   variant, page, flow_log, failed_unchanged>>

\* process_new_links, lines 282-283: the dropped call returns; the poll loop
\* goes to sleep(poll_interval), the handler thread takes the next event.
DroppedReturn(t) ==
    /\ pc[t] = "dropped"
    /\ pc' = [pc EXCEPT ![t] = "idle"]
    /\ poll_sleep' = IF t = "poll" THEN BACKUP_POLL_INTERVAL ELSE poll_sleep
    /\ UNCHANGED <<file_content, file_mtime, last_messages_content,
                   last_file_size, last_modification_time, processed_links,
                   media_file, download_dir, is_processing, cur_stat,
                   new_links, idx, files_before, driver, sessions, success,
                   downloaded_files, initial_files, initial_sizes, phase,
                   pending_events, last_event_age, handler_sleep, writes,
                   attempted, touch_rejected, burst, burst_clock, gate_runs,
                   elapsed, wake_at, dir_events, media_data, restarts,
                   read_failed, processing_lock, all_links, file_path,
                   variant, page, flow_log, failed_unchanged>>

\* has_file_changed, lines 72-78: stat() and the quick check.
QuickUnchanged(st) ==
    st.mtime <= last_modification_time /\ st.size = last_file_size

\* has_file_changed, lines 72-78 (a False result ends the run).
GateStat(t) ==
    /\ pc[t] = "gate_stat"
    /\ LET st == [mtime |-> file_mtime, size |-> StSize(file_content)]
       IN /\ cur_stat' = [cur_stat EXCEPT ![t] = st]
          /\ pc' = [pc EXCEPT ![t] = IF QuickUnchanged(st) THEN "finish" ELSE "gate_read"]
    /\ UNCHANGED <<file_content, file_mtime, last_messages_content,
                   last_file_size, last_modification_time, processed_links,
                   media_file, download_dir, is_processing, new_links, idx,
                   files_before, driver, sessions, success, downloaded_files,
                   initial_files, initial_sizes, phase, pending_events,
                   last_event_age, handler_sleep, poll_sleep, writes,
                   attempted, touch_rejected, burst, burst_clock, gate_runs,
                   elapsed, wake_at, dir_events, media_data, restarts,
                   read_failed, processing_lock, all_links, file_path,
                   variant, page, flow_log, failed_unchanged>>

\* has_file_changed, line 84: the content is compared with the snapshot.
ContentChanged_StatOnly(content) == TRUE

ContentChanged(content) == content /= last_messages_content

\* has_file_changed, lines 81-91: read the content and compare it with the
\* snapshot; a touch only refreshes the stored stat.
GateRead(t) ==
    /\ pc[t] = "gate_read"
    /\ IF ContentChanged(file_content)
       THEN /\ pc' = [pc EXCEPT ![t] = "extract"]
            /\ gate_runs' = IF burst >= 1 THEN gate_runs + 1 ELSE gate_runs
            /\ UNCHANGED <<last_modification_time, last_file_size, touch_rejected>>
       ELSE /\ pc' = [pc EXCEPT ![t] = "finish"]
            /\ last_modification_time' = cur_stat[t].mtime
            /\ last_file_size' = cur_stat[t].size
            /\ touch_rejected' = TRUE
            /\ UNCHANGED gate_runs
    /\ UNCHANGED <<file_content, file_mtime, last_messages_content,
                   processed_links, media_file, download_dir, is_processing,
                   cur_stat, new_links, idx, files_before, driver, sessions,
                   success, downloaded_files, initial_files, initial_sizes,
                   phase, pending_events, last_event_age, handler_sleep,
                   poll_sleep, writes, attempted, burst, burst_clock,
                   elapsed, wake_at, dir_events, media_data, restarts,
                   read_failed, processing_lock, all_links, file_path,
                   variant, page, flow_log, failed_unchanged>>

\* process_new_links, line 302: the links not yet processed.
UnseenLinks(links) == SelectSeq(links, LAMBDA u : ~is_link_processed(u))

\* process_new_links, lines 295-309: extraction and the filter of unseen
\* links; with nothing to do the run goes to update_file_state().
Extract(t) ==
    /\ pc[t] = "extract"
    /\ LET links == extract_links_from_messages(file_content)
           unseen == UnseenLinks(links)
       IN /\ new_links' = [new_links EXCEPT ![t] = unseen]
          /\ idx' = [idx EXCEPT ![t] = 1]
          /\ pc' = [pc EXCEPT ![t] = IF unseen = <<>> THEN "update_state" ELSE "loop"]
    /\ read_failed' = (read_failed \/ IsTorn(file_content))
    /\ UNCHANGED <<file_content, file_mtime, last_messages_content,
                   last_file_size, last_modification_time, processed_links,
                   media_file, download_dir, is_processing, cur_stat,
                   files_before, driver, sessions, success, downloaded_files,
                   initial_files, initial_sizes, phase, pending_events,
                   last_event_age, handler_sleep, poll_sleep, writes,
                   attempted, touch_rejected, burst, burst_clock, gate_runs,
                   elapsed, wake_at, dir_events, media_data, restarts,
                   processing_lock, all_links, file_path, variant, page,
                   flow_log, failed_unchanged>>

(* ----------------------------- download_link --------------------------- *)
CurrentUrl(t) == new_links[t][idx[t]]

\* History: the attempt of the current link ends; the link joins the failed
\* links if it is left unprocessed.
AttemptEnded(t) ==
    IF is_link_processed(CurrentUrl(t))
    THEN failed_unchanged \ {CurrentUrl(t)}
    ELSE failed_unchanged \cup {CurrentUrl(t)}

\* process_new_links, lines 311-321, and download_link, lines 233-248: the
\* next link of the run. A link processed meanwhile is skipped; otherwise a
\* downloader is created (no browser yet) and the directory is listed. A
\* failing listing raises; the loop's handler goes on with the next link.
Loop(t) ==
    /\ pc[t] = "loop"
    /\ IF idx[t] > Len(new_links[t])
       THEN /\ pc' = [pc EXCEPT ![t] = "update_state"]
            /\ UNCHANGED <<idx, files_before, attempted, failed_unchanged>>
       ELSE /\ attempted' = attempted \cup {CurrentUrl(t)}
            /\ IF is_link_processed(CurrentUrl(t))
               THEN /\ idx' = [idx EXCEPT ![t] = idx[t] + 1]
                    /\ UNCHANGED <<pc, files_before, failed_unchanged>>
               ELSE \E raised \in BOOLEAN :
                      IF raised
                      THEN /\ idx' = [idx EXCEPT ![t] = idx[t] + 1]
                           /\ failed_unchanged' = AttemptEnded(t)
                           /\ UNCHANGED <<pc, files_before>>
                      ELSE /\ files_before' = [files_before EXCEPT ![t] = Listing(download_dir)]
                           /\ pc' = [pc EXCEPT ![t] = "dl_open"]
                           /\ UNCHANGED <<idx, failed_unchanged>>
    /\ UNCHANGED <<file_content, file_mtime, last_messages_content,
                   last_file_size, last_modification_time, processed_links,
                   media_file, download_dir, is_processing, cur_stat,
                   new_links, driver, sessions, success, downloaded_files,
                   initial_files, initial_sizes, phase, pending_events,
                   last_event_age, handler_sleep, poll_sleep, writes,
                   touch_rejected, burst, burst_clock, gate_runs, elapsed,
                   wake_at, dir_events, media_data, restarts, read_failed,
                   processing_lock, all_links, file_path, variant, page,
                   flow_log>>

\* setup_driver, lines 378-387: Chrome starts; or it starts and the first
\* script raises (the driver stays set); or it does not start at all.
SetupOutcomes == {"ready", "started_then_failed", "not_started"}

\* download, lines 704-716, into setup_driver: without a ready driver
\* download() returns False.
DlOpen(t) ==
    /\ pc[t] = "dl_open"
    /\ \E outcome \in SetupOutcomes :
          /\ driver' = [driver EXCEPT ![t] = outcome /= "not_started"]
          /\ sessions' = IF outcome /= "not_started" THEN sessions + 1 ELSE sessions
          /\ pc' = [pc EXCEPT ![t] = IF outcome = "ready" THEN "dl_flow" ELSE "dl_after"]
    /\ UNCHANGED <<file_content, file_mtime, last_messages_content,
                   last_file_size, last_modification_time, processed_links,
                   media_file, download_dir, is_processing, cur_stat,
                   new_links, idx, files_before, success, downloaded_files,
                   initial_files, initial_sizes, phase, pending_events,
                   last_event_age, handler_sleep, poll_sleep, writes,
                   attempted, touch_rejected, burst, burst_clock, gate_runs,
                   elapsed, wake_at, dir_events, media_data, restarts,
                   read_failed, processing_lock, all_links, file_path,
                   variant, page, flow_log, failed_unchanged>>

\* download_google_drive_selenium / download_wetransfer_selenium: the provider
\* flow either reaches wait_for_download_completion or returns False (no
\* file id, warning not handled, no download element, exception).
DlFlow(t) ==
    /\ pc[t] = "dl_flow"
    /\ \E flow_ok \in BOOLEAN :
          pc' = [pc EXCEPT ![t] = IF flow_ok THEN "wd_init" ELSE "dl_after"]
    /\ UNCHANGED <<file_content, file_mtime, last_messages_content,
                   last_file_size, last_modification_time, processed_links,
                   media_file, download_dir, is_processing, cur_stat,
                   new_links, idx, files_before, driver, sessions, success,
                   downloaded_files, initial_files, initial_sizes, phase,
                   pending_events, last_event_age, handler_sleep, poll_sleep,
                   writes, attempted, touch_rejected, burst, burst_clock,
                   gate_runs, elapsed, wake_at, dir_events, media_data,
                   restarts, read_failed, processing_lock, all_links,
                   file_path, variant, page, flow_log, failed_unchanged>>

(* --------------------- wait_for_download_completion -------------------- *)
\* Elapsed time of one call: before min_wait_time (2 s), between
\* min_wait_time and the timeout, at or after the timeout.
PhaseOrder == <<"early", "mid", "late">>
PhaseRank(ph) == CHOOSE i \in 1..3 : PhaseOrder[i] = ph
LaterPhases(ph) == {PhaseOrder[i] : i \in PhaseRank(ph)..3}

\* lines 395-414: the initial snapshot of names and sizes.
WdInit(t) ==
    /\ pc[t] = "wd_init"
    /\ initial_files' = [initial_files EXCEPT ![t] = Listing(download_dir)]
    /\ initial_sizes' = [initial_sizes EXCEPT ![t] = download_dir]
    /\ phase' = [phase EXCEPT ![t] = "early"]
    /\ pc' = [pc EXCEPT ![t] = "wd_poll"]
    /\ UNCHANGED <<file_content, file_mtime, last_messages_content,
                   last_file_size, last_modification_time, processed_links,
                   media_file, download_dir, is_processing, cur_stat,
                   new_links, idx, files_before, driver, sessions, success,
                   downloaded_files, pending_events, last_event_age,
                   handler_sleep, poll_sleep, writes, attempted,
                   touch_rejected, burst, burst_clock, gate_runs, elapsed,
                   wake_at, dir_events, media_data, restarts, read_failed,
                   processing_lock, all_links, file_path, variant, page,
                   flow_log, failed_unchanged>>

\* lines 421-432: glob("*.crdownload"), glob("*.tmp")
PartialPresent(dir) == \E n \in Listing(dir) : IsPartial(n)

\* lines 444-446: names not in the initial snapshot
NewFiles(dir, initial) == CurrentFiles(dir) \ initial

\* lines 461-466 with "new_size >= old_size".
Grown_NotSmaller(dir, initial, sizes) ==
    \E n \in CurrentFiles(dir) \cap initial : dir[n] >= sizes[n]

\* lines 461-466: a file of the snapshot has grown
Grown(dir, initial, sizes) ==
    \E n \in CurrentFiles(dir) \cap initial : dir[n] > sizes[n]

\* What one pass of the loop body reports: "wait" (continue), "success",
\* or "recheck" (elapsed >= min_wait_time: the second listing follows).
PollVerdict(dir, initial, sizes, ph) ==
    IF PartialPresent(dir) THEN "wait"
    ELSE IF NewFiles(dir, initial) /= {} THEN "success"
    ELSE IF Grown(dir, initial, sizes) THEN "success"
    ELSE IF ph = "mid" THEN "recheck"
    ELSE "wait"

\* lines 416-505: one pass of the while loop; past the timeout the loop is
\* left for the final check.
WdPoll(t) ==
    /\ pc[t] = "wd_poll"
    /\ \E ph \in LaterPhases(phase[t]) :
          /\ phase' = [phase EXCEPT ![t] = ph]
          /\ IF ph = "late"
             THEN /\ pc' = [pc EXCEPT ![t] = "wd_final"]
                  /\ UNCHANGED success
             ELSE LET v == PollVerdict(download_dir, initial_files[t], initial_sizes[t], ph)
                  IN /\ success' = [success EXCEPT ![t] = v = "success"]
                     /\ pc' = [pc EXCEPT ![t] =
                                  IF v = "success" THEN "dl_after"
                                  ELSE IF v = "recheck" THEN "wd_recheck"
                                  ELSE "wd_poll"]
    /\ UNCHANGED <<file_content, file_mtime, last_messages_content,
                   last_file_size, last_modification_time, processed_links,
                   media_file, download_dir, is_processing, cur_stat,
                   new_links, idx, files_before, driver, sessions,
                   downloaded_files, initial_files, initial_sizes,
                   pending_events, last_event_age, handler_sleep, poll_sleep,
                   writes, attempted, touch_rejected, burst, burst_clock,
                   gate_runs, elapsed, wake_at, dir_events, media_data,
                   restarts, read_failed, processing_lock, all_links,
                   file_path, variant, page, flow_log, failed_unchanged>>

\* lines 470-491: the second listing of the pass, restricted to files
\* modified within the last 30 seconds.
RecentNewFiles(dir, initial, recent) ==
    IF recent THEN CurrentFiles(dir) \ initial ELSE {}

\* lines 468-491: the comprehensive check once min_wait_time has passed.
WdRecheck(t) ==
    /\ pc[t] = "wd_recheck"
    /\ \E recent \in BOOLEAN :
          LET found == RecentNewFiles(download_dir, initial_files[t], recent) /= {}
          IN /\ success' = [success EXCEPT ![t] = found]
             /\ pc' = [pc EXCEPT ![t] = IF found THEN "dl_after" ELSE "wd_poll"]
    /\ UNCHANGED <<file_content, file_mtime, last_messages_content,
                   last_file_size, last_modification_time, processed_links,
                   media_file, download_dir, is_processing, cur_stat,
                   new_links, idx, files_before, driver, sessions,
                   downloaded_files, initial_files, initial_sizes, phase,
                   pending_events, last_event_age, handler_sleep, poll_sleep,
                   writes, attempted, touch_rejected, burst, burst_clock,
                   gate_runs, elapsed, wake_at, dir_events, media_data,
                   restarts, read_failed, processing_lock, all_links,
                   file_path, variant, page, flow_log, failed_unchanged>>

\* lines 511-527 without the listing of the final check.
FinalNewFiles_Skipped(dir, initial) == {}

\* lines 514-515: every listed name that is not in the snapshot.
FinalNewFiles(dir, initial) == CurrentFiles(dir) \ initial

\* lines 511-527: the final check after the timeout.
WdFinal(t) ==
    /\ pc[t] = "wd_final"
    /\ success' = [success EXCEPT ![t] = FinalNewFiles(download_dir, initial_files[t]) /= {}]
    /\ pc' = [pc EXCEPT ![t] = "dl_after"]
    /\ UNCHANGED <<file_content, file_mtime, last_messages_content,
                   last_file_size, last_modification_time, processed_links,
                   media_file, download_dir, is_processing, cur_stat,
                   new_links, idx, files_before, driver, sessions,
                   downloaded_files, initial_files, initial_sizes, phase,
                   pending_events, last_event_age, handler_sleep, poll_sleep,
                   writes, attempted, touch_rejected, burst, burst_clock,
                   gate_runs, elapsed, wake_at, dir_events, media_data,
                   restarts, read_failed, processing_lock, all_links,
                   file_path, variant, page, flow_log, failed_unchanged>>

(* ------------------ download_link: after download(url) ----------------- *)
\* mark_link_processed, lines 163-168: the link's digest joins the index.
mark_link_processed_Forgets(url) == processed_links

mark_link_processed(url) == processed_links \cup {md5(url)}

\* download_link, line 253: "if success:"
Succeeded_Unchecked(t) == TRUE

Succeeded(t) == success[t]

\* download_link, lines 270-272: a failed download records nothing.
processed_after_failure_Marked(url) == mark_link_processed(url)

processed_after_failure(url) == processed_links

\* download_link, lines 274-276: an exception leaves through the finally
\* clause.
AfterRaise_NoFinally == "loop"

\* process_new_links, lines 315-321, without the except clause of the
\* loop: the exception leaves the run through its finally clause.
AfterRaise_Escapes == "finish"

AfterRaise == "dl_cleanup"

\* download_link, lines 253-272: on success the directory is listed again
\* (a failing listing raises); new names go to update_media_json, none
\* marks the link processed; on failure nothing is recorded.
DlAfter(t) ==
    /\ pc[t] = "dl_after"
    /\ IF ~Succeeded(t)
       THEN /\ pc' = [pc EXCEPT ![t] = "dl_cleanup"]
            /\ processed_links' = processed_after_failure(CurrentUrl(t))
            /\ UNCHANGED downloaded_files
       ELSE \E raised \in BOOLEAN :
              LET new_files == Listing(download_dir) \ files_before[t]
              IN IF raised
                 THEN /\ pc' = [pc EXCEPT ![t] = AfterRaise]
                      /\ UNCHANGED <<processed_links, downloaded_files>>
                 ELSE IF new_files /= {}
                 THEN /\ downloaded_files' = [downloaded_files EXCEPT ![t] = new_files]
                      /\ pc' = [pc EXCEPT ![t] = "dl_update"]
                      /\ UNCHANGED processed_links
                 ELSE /\ processed_links' = mark_link_processed(CurrentUrl(t))
                      /\ pc' = [pc EXCEPT ![t] = "dl_cleanup"]
                      /\ UNCHANGED downloaded_files
    /\ UNCHANGED <<file_content, file_mtime, last_messages_content,
                   last_file_size, last_modification_time, media_file,
                   download_dir, is_processing, cur_stat, new_links, idx,
                   files_before, driver, sessions, success, initial_files,
                   initial_sizes, phase, pending_events, last_event_age,
                   handler_sleep, poll_sleep, writes, attempted,
                   touch_rejected, burst, burst_clock, gate_runs, elapsed,
                   wake_at, dir_events, media_data, restarts, read_failed,
                   processing_lock, all_links, file_path, variant, page,
                   flow_log, failed_unchanged>>

\* update_media_json, lines 201-215: the entry of one downloaded file.
media_entry(url, name, size) ==
    [source_link |-> url, mediaPath |-> name,
     type |-> media_type(file_extension(PathChars(name))),
     file_size |-> size]

\* The orders in which the set of new files can be iterated.
Orders(S) ==
    {s \in [1..Cardinality(S) -> S] :
        \A i, j \in 1..Cardinality(S) : s[i] = s[j] => i = j}

RECURSIVE EntriesOf(_, _, _)
EntriesOf(url, order, dir) ==
    IF order = <<>> THEN <<>>
    ELSE <<media_entry(url, Head(order), dir[Head(order)])>>
             \o EntriesOf(url, Tail(order), dir)

\* update_media_json, lines 172-229: one entry per downloaded file that
\* still exists, the link marked processed with each of them, then the
\* whole catalog rewritten. The except clause of lines 228-229 swallows an
\* exception: one raised before the first entry (unparsable catalog, stat
\* or path error) leaves catalog and index as they were, one raised after
\* an entry was built (on a later file or on the write) leaves the link
\* marked and the catalog file unwritten.
UpdateOutcomes == {"written", "raised_early", "raised_late"}

update_media_json(t, order, outcome) ==
    LET existing == SelectSeq(order, LAMBDA n : download_dir[n] /= ABSENT)
        entries == EntriesOf(CurrentUrl(t), existing, download_dir)
        loaded == CatalogEntries(media_file)
        raised == IF CatalogReadable(media_file) THEN outcome ELSE "raised_early"
    IN /\ media_file' = IF raised = "written" THEN json_dump(loaded \o entries)
                        ELSE media_file
       /\ processed_links' = IF entries = <<>> \/ raised = "raised_early"
                             THEN processed_links
                             ELSE mark_link_processed(CurrentUrl(t))

\* download_link, line 263: update_media_json(link_info, downloaded_files).
DlUpdate(t) ==
    /\ pc[t] = "dl_update"
    /\ \E outcome \in UpdateOutcomes, order \in Orders(downloaded_files[t]) :
          update_media_json(t, order, outcome)
    /\ pc' = [pc EXCEPT ![t] = "dl_cleanup"]
    /\ UNCHANGED <<file_content, file_mtime, last_messages_content,
                   last_file_size, last_modification_time, download_dir,
                   is_processing, cur_stat, new_links, idx, files_before,
                   driver, sessions, success, downloaded_files,
                   initial_files, initial_sizes, phase, pending_events,
                   last_event_age, handler_sleep, poll_sleep, writes,
                   attempted, touch_rejected, burst, burst_clock, gate_runs,
                   elapsed, wake_at, dir_events, media_data, restarts,
                   read_failed, processing_lock, all_links, file_path,
                   variant, page, flow_log, failed_unchanged>>

\* SeleniumVideoDownloader.cleanup, lines 718-725: quit the driver if there
\* is one; driver.quit() ends the browser session.
cleanup_NoQuit(t) == sessions

cleanup(t) == IF driver[t] THEN sessions - 1 ELSE sessions

\* download_link, lines 274-276: the finally clause; the downloader and the
\* locals of the attempt go out of scope and the loop goes on with the next
\* link.
DlCleanup(t) ==
    /\ pc[t] = "dl_cleanup"
    /\ sessions' = cleanup(t)
    /\ driver' = [driver EXCEPT ![t] = FALSE]
    /\ idx' = [idx EXCEPT ![t] = idx[t] + 1]
    /\ pc' = [pc EXCEPT ![t] = "loop"]
    /\ files_before' = [files_before EXCEPT ![t] = {}]
    /\ success' = [success EXCEPT ![t] = FALSE]
    /\ downloaded_files' = [downloaded_files EXCEPT ![t] = {}]
    /\ initial_files' = [initial_files EXCEPT ![t] = {}]
    /\ initial_sizes' = [initial_sizes EXCEPT ![t] = EmptyDir]
    /\ phase' = [phase EXCEPT ![t] = "none"]
    /\ failed_unchanged' = AttemptEnded(t)
    /\ UNCHANGED <<file_content, file_mtime, last_messages_content,
                   last_file_size, last_modification_time, processed_links,
                   media_file, download_dir, is_processing, cur_stat,
                   new_links, pending_events, last_event_age, handler_sleep,
                   poll_sleep, writes, attempted, touch_rejected, burst,
                   burst_clock, gate_runs, elapsed, wake_at, dir_events,
                   media_data, restarts, read_failed, processing_lock,
                   all_links, file_path, variant, page, flow_log>>

\* update_file_state, lines 51-64, as called at the end of a run that passed
\* the change check: the CURRENT stat and content become WatchState.
UpdateState(t) ==
    /\ pc[t] = "update_state"
    /\ last_modification_time' = file_mtime
    /\ last_file_size' = StSize(file_content)
    /\ last_messages_content' = file_content
    /\ pc' = [pc EXCEPT ![t] = "finish"]
    /\ UNCHANGED <<file_content, file_mtime, processed_links, media_file,
                   download_dir, is_processing, cur_stat, new_links, idx,
                   files_before, driver, sessions, success, downloaded_files,
                   initial_files, initial_sizes, phase, pending_events,
                   last_event_age, handler_sleep, poll_sleep, writes,
                   attempted, touch_rejected, burst, burst_clock, gate_runs,
                   elapsed, wake_at, dir_events, media_data, restarts,
                   read_failed, processing_lock, all_links, file_path,
                   variant, page, flow_log, failed_unchanged>>

\* The finally clause without its assignment.
busy_after_run_Kept == is_processing

\* process_new_links, lines 328-329: finally: self.is_processing = False
busy_after_run == FALSE

\* process_new_links, lines 328-329: the finally clause clears the busy
\* flag; the locals of the run go out of scope and the caller goes on (main
\* starts the monitors, the poll loop sleeps poll_interval).
Finish(t) ==
    /\ pc[t] = "finish"
    /\ is_processing' = busy_after_run
    /\ pc' = [pc EXCEPT ![t] = IF t = "main" THEN "done" ELSE "idle"]
    /\ poll_sleep' = IF t = "poll" THEN BACKUP_POLL_INTERVAL ELSE poll_sleep
    /\ cur_stat' = [cur_stat EXCEPT ![t] = NoStat]
    /\ new_links' = [new_links EXCEPT ![t] = <<>>]
    /\ idx' = [idx EXCEPT ![t] = 0]
    /\ touch_rejected' = FALSE
    /\ UNCHANGED <<file_content, file_mtime, last_messages_content,
                   last_file_size, last_modification_time, processed_links,
                   media_file, download_dir, files_before, driver, sessions,
                   success, downloaded_files, initial_files, initial_sizes,
                   phase, pending_events, last_event_age, handler_sleep,
                   writes, attempted, burst, burst_clock, gate_runs, elapsed,
                   wake_at, dir_events, media_data, restarts, read_failed,
                   processing_lock, all_links, file_path, variant, page,
                   flow_log, failed_unchanged>>

(* ------------------------ environment: the browser --------------------- *)
\* A live browser session that has been driven into a provider flow writes
\* the file behind the link into the download directory, until the driver
\* is quit. The Drive link serves clip.mp4 (through Chrome's partial
\* file or at once), the WeTransfer link serves notes.pdf. A partial file
\* starts empty; the size of a complete file is any positive number, here
\* the length of its name.
InFlow(t) ==
    driver[t] /\ pc[t] \in {"dl_flow", "wd_init", "wd_poll", "wd_recheck",
                            "wd_final", "dl_after", "dl_update"}

Serving(url) == \E t \in Threads : InFlow(t) /\ CurrentUrl(t) = url

FileOf(url) == IF url = GD_URL THEN FINAL_A ELSE FINAL_B

\* Chrome starts a download under the partial-download name.
BrowserStartsPartial ==
    /\ Serving(GD_URL)
    /\ download_dir[PARTIAL_A] = ABSENT
    /\ download_dir' = [download_dir EXCEPT ![PARTIAL_A] = 0]
    /\ UNCHANGED <<file_content, file_mtime, last_messages_content,
                   last_file_size, last_modification_time, processed_links,
                   media_file, is_processing, pc, cur_stat, new_links, idx,
                   files_before, driver, sessions, success, downloaded_files,
                   initial_files, initial_sizes, phase, pending_events,
                   last_event_age, handler_sleep, poll_sleep, writes,
                   attempted, touch_rejected, burst, burst_clock, gate_runs,
                   elapsed, wake_at, dir_events, media_data, restarts,
                   read_failed, processing_lock, all_links, file_path,
                   variant, page, flow_log, failed_unchanged>>

\* The partial file is renamed to the final name, or dropped.
BrowserEndsPartial ==
    /\ Serving(GD_URL)
    /\ download_dir[PARTIAL_A] /= ABSENT
    /\ \/ /\ download_dir[FINAL_A] = ABSENT
          /\ download_dir' = [download_dir EXCEPT ![PARTIAL_A] = ABSENT,
                                                  ![FINAL_A] = Len(FINAL_A)]
       \/ download_dir' = [download_dir EXCEPT ![PARTIAL_A] = ABSENT]
    /\ UNCHANGED <<file_content, file_mtime, last_messages_content,
                   last_file_size, last_modification_time, processed_links,
                   media_file, is_processing, pc, cur_stat, new_links, idx,
                   files_before, driver, sessions, success, downloaded_files,
                   initial_files, initial_sizes, phase, pending_events,
                   last_event_age, handler_sleep, poll_sleep, writes,
                   attempted, touch_rejected, burst, burst_clock, gate_runs,
                   elapsed, wake_at, dir_events, media_data, restarts,
                   read_failed, processing_lock, all_links, file_path,
                   variant, page, flow_log, failed_unchanged>>

\* A small file is written under its final name at once.
BrowserDeposits ==
    /\ \E url \in URLS :
          /\ Serving(url)
          /\ download_dir[FileOf(url)] = ABSENT
          /\ download_dir' = [download_dir EXCEPT ![FileOf(url)] = Len(FileOf(url))]
    /\ UNCHANGED <<file_content, file_mtime, last_messages_content,
                   last_file_size, last_modification_time, processed_links,
                   media_file, is_processing, pc, cur_stat, new_links, idx,
                   files_before, driver, sessions, success, downloaded_files,
                   initial_files, initial_sizes, phase, pending_events,
                   last_event_age, handler_sleep, poll_sleep, writes,
                   attempted, touch_rejected, burst, burst_clock, gate_runs,
                   elapsed, wake_at, dir_events, media_data, restarts,
                   read_failed, processing_lock, all_links, file_path,
                   variant, page, flow_log, failed_unchanged>>

(* ------------------------------ the system ----------------------------- *)
Next ==
    \/ AppendMessage
    \/ LongWait
    \/ MainStart
    \/ EventDispatch
    \/ EventTrigger
    \/ PollTrigger
    \/ BrowserStartsPartial
    \/ BrowserEndsPartial
    \/ BrowserDeposits
    \/ \E t \in Threads :
          \/ GateStat(t)
          \/ GateRead(t)
          \/ Extract(t)
          \/ Loop(t)
          \/ DlOpen(t)
          \/ DlFlow(t)
          \/ WdInit(t)
          \/ WdPoll(t)
          \/ WdRecheck(t)
          \/ WdFinal(t)
          \/ DlAfter(t)
          \/ DlUpdate(t)
          \/ DlCleanup(t)
          \/ UpdateState(t)
          \/ Finish(t)
          \/ DroppedReturn(t)

Spec == Init /\ [][Next]_vars

WatchStep ==
    \/ Tick
    \/ LongWait
    \/ EventDispatch
    \/ EventTrigger
    \/ PollTrigger
    \/ \E t \in Workers :
          \/ GateStat(t)
          \/ GateRead(t)
          \/ Extract(t)
          \/ UpdateState(t)
          \/ Finish(t)
          \/ DroppedReturn(t)

\* The monitors over a link-free message store that is rewritten and
\* touched at arbitrary times.
NextWatch ==
    \/ RewriteLinkFree
    \/ TouchMessages
    \/ WatchStep

SpecWatch == InitWatch /\ [][NextWatch]_vars

\* The monitors over a link-free message store that receives one burst of
\* content-changing writes.
NextBurst ==
    \/ BurstWrite
    \/ WatchStep

SpecBurst == InitWatch /\ [][NextBurst]_vars

(* ------------ one timed call of wait_for_download_completion ----------- *)
\* Times of the detector in tenths of a second.
INITIAL_SLEEP == 5
PARTIAL_SLEEP == 10
CHECK_INTERVAL == 2
MIN_WAIT_TIME == 20

\* The timeout argument of the call, in tenths of a second.
WaitTimeout == 50

\* The loop given up once min_wait_time has passed.
PhaseAt_MinWait(e) == IF e >= MIN_WAIT_TIME THEN "late" ELSE "early"

\* The loop without its test of the timeout.
PhaseAt_NoTimeout(e) == IF e >= MIN_WAIT_TIME THEN "mid" ELSE "early"

\* lines 416 and 469-470: where the elapsed time stands.
PhaseAt(e) ==
    IF e >= WaitTimeout THEN "late"
    ELSE IF e >= MIN_WAIT_TIME THEN "mid"
    ELSE "early"

\* The caller is inside download(): the provider flow has just reached
\* wait_for_download_completion, the download directory is still empty.
InitWait ==
    /\ file_content = <<ChatGD>>
    /\ file_mtime = 0
    /\ last_messages_content = <<>>
    /\ last_file_size = 0
    /\ last_modification_time = 0
    /\ media_file = NoFile
    /\ processed_links = {}
    /\ download_dir = EmptyDir
    /\ is_processing = TRUE
    /\ pc = [t \in Threads |-> IF t = "main" THEN "wd_init" ELSE "idle"]
    /\ cur_stat = [t \in Threads |-> NoStat]
    /\ new_links = [t \in Threads |-> IF t = "main" THEN <<GD_URL>> ELSE <<>>]
    /\ idx = [t \in Threads |-> IF t = "main" THEN 1 ELSE 0]
    /\ files_before = [t \in Threads |-> {}]
    /\ driver = [t \in Threads |-> t = "main"]
    /\ sessions = 1
    /\ success = [t \in Threads |-> FALSE]
    /\ downloaded_files = [t \in Threads |-> {}]
    /\ initial_files = [t \in Threads |-> {}]
    /\ initial_sizes = [t \in Threads |-> EmptyDir]
    /\ phase = [t \in Threads |-> "none"]
    /\ pending_events = 0
    /\ last_event_age = DEBOUNCE_COOLDOWN
    /\ handler_sleep = 0
    /\ poll_sleep = 0
    /\ writes = 0
    /\ attempted = {GD_URL}
    /\ touch_rejected = FALSE
    /\ burst = 0
    /\ burst_clock = 0
    /\ gate_runs = 0
    /\ elapsed = 0
    /\ wake_at = 0
    /\ dir_events = {}
    /\ media_data = <<>>
    /\ restarts = 0
    /\ read_failed = FALSE
    /\ failed_unchanged = {}
    /\ AtRest

\* The call has not returned.
Waiting == pc["main"] \in {"wd_init", "wd_poll", "wd_recheck", "wd_final"}

\* The snapshot of lines 395-404 has been taken.
Snapshotted == pc["main"] \in {"wd_poll", "wd_recheck", "wd_final"}

\* History of the directory since the snapshot, for events before the
\* timeout expires: a name outside the snapshot that carries no partial
\* marker, not hidden ("new") or hidden ("hidden"); a file of the
\* snapshot that grew ("grown"). The same after the timeout: "new_late",
\* "grown_late". Anything else: "other".
Late(e) ==
    IF e = "new" THEN "new_late"
    ELSE IF e = "grown" THEN "grown_late"
    ELSE "other"

Logged(e) ==
    IF ~Snapshotted THEN dir_events
    ELSE IF elapsed < WaitTimeout THEN dir_events \cup {e}
    ELSE dir_events \cup {Late(e)}

ArrivalKind(n) ==
    IF IsPartial(n) \/ n \in initial_files["main"] THEN "other"
    ELSE IF IsHidden(n) THEN "hidden"
    ELSE "new"

\* A file appears in the download directory: Chrome's partial file starts
\* empty, notes.pdf is created empty or complete, the others complete.
DirFileAppears ==
    /\ Waiting
    /\ \E n \in FileNames, full \in BOOLEAN :
          /\ download_dir[n] = ABSENT
          /\ full = FALSE => n \in {PARTIAL_A, FINAL_B}
          /\ full = TRUE => n /= PARTIAL_A
          /\ download_dir' = [download_dir EXCEPT ![n] = IF full THEN Len(n) ELSE 0]
          /\ dir_events' = Logged(ArrivalKind(n))
    /\ UNCHANGED <<file_content, file_mtime, last_messages_content,
                   last_file_size, last_modification_time, processed_links,
                   media_file, is_processing, pc, cur_stat, new_links, idx,
                   files_before, driver, sessions, success, downloaded_files,
                   initial_files, initial_sizes, phase, pending_events,
                   last_event_age, handler_sleep, poll_sleep, writes,
                   attempted, touch_rejected, burst, burst_clock, gate_runs,
                   elapsed, wake_at, media_data, restarts, read_failed,
                   processing_lock, all_links, file_path, variant, page,
                   flow_log, failed_unchanged>>

\* An empty file of the download directory receives its bytes.
DirFileGrows ==
    /\ Waiting
    /\ \E n \in FileNames :
          /\ download_dir[n] = 0
          /\ download_dir' = [download_dir EXCEPT ![n] = Len(n)]
          /\ dir_events' = Logged(IF n \in initial_files["main"] THEN "grown" ELSE "other")
    /\ UNCHANGED <<file_content, file_mtime, last_messages_content,
                   last_file_size, last_modification_time, processed_links,
                   media_file, is_processing, pc, cur_stat, new_links, idx,
                   files_before, driver, sessions, success, downloaded_files,
                   initial_files, initial_sizes, phase, pending_events,
                   last_event_age, handler_sleep, poll_sleep, writes,
                   attempted, touch_rejected, burst, burst_clock, gate_runs,
                   elapsed, wake_at, media_data, restarts, read_failed,
                   processing_lock, all_links, file_path, variant, page,
                   flow_log, failed_unchanged>>

\* Chrome renames its partial file to the final name, or drops it.
DirPartialEnds ==
    /\ Waiting
    /\ download_dir[PARTIAL_A] /= ABSENT
    /\ \/ /\ download_dir[FINAL_A] = ABSENT
          /\ download_dir' = [download_dir EXCEPT ![PARTIAL_A] = ABSENT,
                                                  ![FINAL_A] = Len(FINAL_A)]
          /\ dir_events' = Logged(ArrivalKind(FINAL_A)) \cup Logged("other")
       \/ /\ download_dir' = [download_dir EXCEPT ![PARTIAL_A] = ABSENT]
          /\ dir_events' = Logged("other")
    /\ UNCHANGED <<file_content, file_mtime, last_messages_content,
                   last_file_size, last_modification_time, processed_links,
                   media_file, is_processing, pc, cur_stat, new_links, idx,
                   files_before, driver, sessions, success, downloaded_files,
                   initial_files, initial_sizes, phase, pending_events,
                   last_event_age, handler_sleep, poll_sleep, writes,
                   attempted, touch_rejected, burst, burst_clock, gate_runs,
                   elapsed, wake_at, media_data, restarts, read_failed,
                   processing_lock, all_links, file_path, variant, page,
                   flow_log, failed_unchanged>>

\* lines 392-414: start_time, the initial snapshot of names and sizes (hidden
\* files included), then sleep(0.5).
WaitStart ==
    /\ pc["main"] = "wd_init"
    /\ initial_files' = [initial_files EXCEPT !["main"] = Listing(download_dir)]
    /\ initial_sizes' = [initial_sizes EXCEPT !["main"] = download_dir]
    /\ elapsed' = 0
    /\ wake_at' = INITIAL_SLEEP
    /\ pc' = [pc EXCEPT !["main"] = "wd_poll"]
    /\ UNCHANGED <<file_content, file_mtime, last_messages_content,
                   last_file_size, last_modification_time, processed_links,
                   media_file, download_dir, is_processing, cur_stat,
                   new_links, idx, files_before, driver, sessions, success,
                   downloaded_files, phase, pending_events, last_event_age,
                   handler_sleep, poll_sleep, writes, attempted,
                   touch_rejected, burst, burst_clock, gate_runs, dir_events,
                   media_data, restarts, read_failed, processing_lock,
                   all_links, file_path, variant, page, flow_log,
                   failed_unchanged>>

\* time.sleep: a tenth of a second of the current sleep passes.
WaitTick ==
    /\ pc["main"] = "wd_poll"
    /\ elapsed < wake_at
    /\ elapsed' = elapsed + 1
    /\ UNCHANGED <<file_content, file_mtime, last_messages_content,
                   last_file_size, last_modification_time, processed_links,
                   media_file, download_dir, is_processing, pc, cur_stat,
                   new_links, idx, files_before, driver, sessions, success,
                   downloaded_files, initial_files, initial_sizes, phase,
                   pending_events, last_event_age, handler_sleep, poll_sleep,
                   writes, attempted, touch_rejected, burst, burst_clock,
                   gate_runs, wake_at, dir_events, media_data, restarts,
                   read_failed, processing_lock, all_links, file_path,
                   variant, page, flow_log, failed_unchanged>>

\* lines 416-505 at the end of a sleep: the loop test and one pass of the
\* body. A partial file sends the loop back to sleep for a second; otherwise
\* the pass reports as PollVerdict says and sleeps for check_interval.
WaitPass ==
    /\ pc["main"] = "wd_poll"
    /\ elapsed = wake_at
    /\ IF PhaseAt(elapsed) = "late"
       THEN /\ pc' = [pc EXCEPT !["main"] = "wd_final"]
            /\ UNCHANGED <<success, wake_at>>
       ELSE LET v == PollVerdict(download_dir, initial_files["main"],
                                 initial_sizes["main"], PhaseAt(elapsed))
            IN /\ success' = [success EXCEPT !["main"] = v = "success"]
               /\ pc' = [pc EXCEPT !["main"] =
                            IF v = "success" THEN "dl_after"
                            ELSE IF v = "recheck" THEN "wd_recheck"
                            ELSE "wd_poll"]
               /\ wake_at' = IF v /= "wait" THEN wake_at
                             ELSE IF PartialPresent(download_dir)
                             THEN elapsed + PARTIAL_SLEEP
                             ELSE elapsed + CHECK_INTERVAL
    /\ UNCHANGED <<file_content, file_mtime, last_messages_content,
                   last_file_size, last_modification_time, processed_links,
                   media_file, download_dir, is_processing, cur_stat,
                   new_links, idx, files_before, driver, sessions,
                   downloaded_files, initial_files, initial_sizes, phase,
                   pending_events, last_event_age, handler_sleep, poll_sleep,
                   writes, attempted, touch_rejected, burst, burst_clock,
                   gate_runs, elapsed, dir_events, media_data, restarts,
                   read_failed, processing_lock, all_links, file_path,
                   variant, page, flow_log, failed_unchanged>>

\* lines 468-505: the comprehensive check of a pass once min_wait_time has
\* passed, then sleep(check_interval).
WaitRecheck ==
    /\ pc["main"] = "wd_recheck"
    /\ \E recent \in BOOLEAN :
          LET found == RecentNewFiles(download_dir, initial_files["main"], recent) /= {}
          IN /\ success' = [success EXCEPT !["main"] = found]
             /\ pc' = [pc EXCEPT !["main"] = IF found THEN "dl_after" ELSE "wd_poll"]
             /\ wake_at' = IF found THEN wake_at ELSE elapsed + CHECK_INTERVAL
    /\ UNCHANGED <<file_content, file_mtime, last_messages_content,
                   last_file_size, last_modification_time, processed_links,
                   media_file, download_dir, is_processing, cur_stat,
                   new_links, idx, files_before, driver, sessions,
                   downloaded_files, initial_files, initial_sizes, phase,
                   pending_events, last_event_age, handler_sleep, poll_sleep,
                   writes, attempted, touch_rejected, burst, burst_clock,
                   gate_runs, elapsed, dir_events, media_data, restarts,
                   read_failed, processing_lock, all_links, file_path,
                   variant, page, flow_log, failed_unchanged>>

\* lines 511-527: the final check after the timeout, then the return.
WaitFinal ==
    /\ pc["main"] = "wd_final"
    /\ success' = [success EXCEPT !["main"] =
                      FinalNewFiles(download_dir, initial_files["main"]) /= {}]
    /\ pc' = [pc EXCEPT !["main"] = "dl_after"]
    /\ UNCHANGED <<file_content, file_mtime, last_messages_content,
                   last_file_size, last_modification_time, processed_links,
                   media_file, download_dir, is_processing, cur_stat,
                   new_links, idx, files_before, driver, sessions,
                   downloaded_files, initial_files, initial_sizes, phase,
                   pending_events, last_event_age, handler_sleep, poll_sleep,
                   writes, attempted, touch_rejected, burst, burst_clock,
                   gate_runs, elapsed, wake_at, dir_events, media_data,
                   restarts, read_failed, processing_lock, all_links,
                   file_path, variant, page, flow_log, failed_unchanged>>

\* One call of the detector while the browser and other programs change
\* the download directory at arbitrary times.
NextWait ==
    \/ DirFileAppears
    \/ DirFileGrows
    \/ DirPartialEnds
    \/ WaitStart
    \/ WaitTick
    \/ WaitPass
    \/ WaitRecheck
    \/ WaitFinal

SpecWait == InitWait /\ [][NextWait]_vars

(* ------------- the catalog file across updates and restarts ------------ *)
MaxRestarts == 2    \* starts of the program after the first one

\* Catalog files found at the first start: none, an empty file, a text cut
\* off after its first token, an empty list, a list with one entry.
InitialCatalogs ==
    {NoFile, <<>>, <<LBRACKET>>, json_dump(<<>>),
     json_dump(<<media_entry(GD_URL, FINAL_A, Len(FINAL_A))>>)}

\* load_processed_links with its except clause removed: the exception of
\* json.load leaves __init__.
LoadPropagates_Unparsable(file) == ~CatalogReadable(file)

\* load_processed_links, lines 111-112: no exception leaves the method.
LoadPropagates(file) == FALSE

\* LinkDownloadManager.__init__, lines 21-49, over the catalog file as it
\* is on disk.
Started(file) ==
    /\ processed_links' = load_processed_links(file)
    /\ pc' = [t \in Threads |->
                IF t /= "main" THEN "idle"
                ELSE IF LoadPropagates(file) THEN "crashed" ELSE "idle"]
    /\ is_processing' = FALSE
    /\ new_links' = [t \in Threads |-> <<>>]
    /\ idx' = [t \in Threads |-> 0]
    /\ downloaded_files' = [t \in Threads |-> {}]
    /\ media_data' = <<>>
    /\ attempted' = {}

\* The first start of the program.
InitCatalog ==
    /\ media_file \in InitialCatalogs
    /\ processed_links = load_processed_links(media_file)
    /\ pc = [t \in Threads |->
               IF t = "main" /\ LoadPropagates(media_file) THEN "crashed" ELSE "idle"]
    /\ file_content = <<ChatGD, ChatWT>>
    /\ file_mtime = 0
    /\ last_messages_content = file_content
    /\ last_file_size = StSize(file_content)
    /\ last_modification_time = file_mtime
    /\ download_dir = EmptyDir
    /\ is_processing = FALSE
    /\ cur_stat = [t \in Threads |-> NoStat]
    /\ new_links = [t \in Threads |-> <<>>]
    /\ idx = [t \in Threads |-> 0]
    /\ files_before = [t \in Threads |-> {}]
    /\ driver = [t \in Threads |-> FALSE]
    /\ sessions = 0
    /\ success = [t \in Threads |-> FALSE]
    /\ downloaded_files = [t \in Threads |-> {}]
    /\ initial_files = [t \in Threads |-> {}]
    /\ initial_sizes = [t \in Threads |-> EmptyDir]
    /\ phase = [t \in Threads |-> "none"]
    /\ pending_events = 0
    /\ last_event_age = DEBOUNCE_COOLDOWN
    /\ handler_sleep = 0
    /\ poll_sleep = 0
    /\ writes = 0
    /\ attempted = {}
    /\ touch_rejected = FALSE
    /\ burst = 0
    /\ burst_clock = 0
    /\ gate_runs = 0
    /\ elapsed = 0
    /\ wake_at = 0
    /\ dir_events = {}
    /\ media_data = <<>>
    /\ restarts = 0
    /\ read_failed = FALSE
    /\ failed_unchanged = {}
    /\ AtRest

\* The process is killed at any point (Ctrl+C, power loss) and the program is
\* started again: a fresh LinkDownloadManager loads the catalog file as the
\* old process left it.
Restart ==
    /\ restarts < MaxRestarts
    /\ pc["main"] /= "crashed"
    /\ restarts' = restarts + 1
    /\ Started(media_file)
    /\ UNCHANGED <<file_content, file_mtime, last_messages_content,
                   last_file_size, last_modification_time, media_file,
                   download_dir, cur_stat, files_before, driver, sessions,
                   success, initial_files, initial_sizes, phase,
                   pending_events, last_event_age, handler_sleep, poll_sleep,
                   writes, touch_rejected, burst, burst_clock, gate_runs,
                   elapsed, wake_at, dir_events, read_failed,
                   processing_lock, all_links, file_path, variant, page,
                   flow_log, failed_unchanged>>

\* process_new_links and download_link up to line 263, for one link of the
\* message store that is not processed: the download succeeded and left the
\* link's file, or both files, as new files.
CatBegin ==
    /\ pc["main"] = "idle"
    /\ \E url \in URLS, both \in BOOLEAN :
          LET files == IF both THEN {FINAL_A, FINAL_B} ELSE {FileOf(url)} IN
          /\ ~is_link_processed(url)
          /\ new_links' = [new_links EXCEPT !["main"] = <<url>>]
          /\ idx' = [idx EXCEPT !["main"] = 1]
          /\ attempted' = attempted \cup {url}
          /\ downloaded_files' = [downloaded_files EXCEPT !["main"] = files]
          /\ download_dir' = [n \in FileNames |-> IF n \in files THEN Len(n) ELSE ABSENT]
    /\ is_processing' = TRUE
    /\ pc' = [pc EXCEPT !["main"] = "dl_update"]
    /\ UNCHANGED <<file_content, file_mtime, last_messages_content,
                   last_file_size, last_modification_time, processed_links,
                   media_file, cur_stat, files_before, driver, sessions,
                   success, initial_files, initial_sizes, phase,
                   pending_events, last_event_age, handler_sleep, poll_sleep,
                   writes, touch_rejected, burst, burst_clock, gate_runs,
                   elapsed, wake_at, dir_events, media_data, restarts,
                   read_failed, processing_lock, all_links, file_path,
                   variant, page, flow_log, failed_unchanged>>

\* update_media_json, lines 172-220: the catalog is loaded, one entry per
\* file is appended to media_data and the link is marked processed. An
\* exception (json.load on an unparsable catalog, stat or path error) ends
\* the method in its except clause, before or after the link was marked.
CatBuild ==
    /\ pc["main"] = "dl_update"
    /\ \E outcome \in UpdateOutcomes, order \in Orders(downloaded_files["main"]) :
          LET entries == EntriesOf(CurrentUrl("main"), order, download_dir)
              raised == IF CatalogReadable(media_file) THEN outcome ELSE "raised_early"
          IN /\ media_data' = IF raised = "written"
                              THEN CatalogEntries(media_file) \o entries ELSE <<>>
             /\ processed_links' = IF raised = "raised_early" THEN processed_links
                                   ELSE mark_link_processed(CurrentUrl("main"))
             /\ pc' = [pc EXCEPT !["main"] = IF raised = "written" THEN "cat_open" ELSE "idle"]
             /\ is_processing' = (raised = "written")
    /\ UNCHANGED <<file_content, file_mtime, last_messages_content,
                   last_file_size, last_modification_time, media_file,
                   download_dir, cur_stat, new_links, idx, files_before,
                   driver, sessions, success, downloaded_files,
                   initial_files, initial_sizes, phase, pending_events,
                   last_event_age, handler_sleep, poll_sleep, writes,
                   attempted, touch_rejected, burst, burst_clock, gate_runs,
                   elapsed, wake_at, dir_events, restarts, read_failed,
                   processing_lock, all_links, file_path, variant, page,
                   flow_log, failed_unchanged>>

\* update_media_json, line 223: open(self.media_file, 'w') creates the file
\* or truncates it to zero length.
CatOpen ==
    /\ pc["main"] = "cat_open"
    /\ media_file' = <<>>
    /\ pc' = [pc EXCEPT !["main"] = "cat_dump"]
    /\ UNCHANGED <<file_content, file_mtime, last_messages_content,
                   last_file_size, last_modification_time, processed_links,
                   download_dir, is_processing, cur_stat, new_links, idx,
                   files_before, driver, sessions, success, downloaded_files,
                   initial_files, initial_sizes, phase, pending_events,
                   last_event_age, handler_sleep, poll_sleep, writes,
                   attempted, touch_rejected, burst, burst_clock, gate_runs,
                   elapsed, wake_at, dir_events, media_data, restarts,
                   read_failed, processing_lock, all_links, file_path,
                   variant, page, flow_log, failed_unchanged>>

\* update_media_json, line 224: json.dump writes the text of media_data into
\* the open file; the text reaches the file piece by piece, and with the
\* last piece the method returns.
CatDump ==
    /\ pc["main"] = "cat_dump"
    /\ LET text == json_dump(media_data)
           written == Append(media_file, text[Len(media_file) + 1])
       IN /\ media_file' = written
          /\ pc' = [pc EXCEPT !["main"] = IF written = text THEN "idle" ELSE "cat_dump"]
          /\ is_processing' = (written /= text)
          /\ media_data' = IF written = text THEN <<>> ELSE media_data
    /\ UNCHANGED <<file_content, file_mtime, last_messages_content,
                   last_file_size, last_modification_time, processed_links,
                   download_dir, cur_stat, new_links, idx, files_before,
                   driver, sessions, success, downloaded_files,
                   initial_files, initial_sizes, phase, pending_events,
                   last_event_age, handler_sleep, poll_sleep, writes,
                   attempted, touch_rejected, burst, burst_clock, gate_runs,
                   elapsed, wake_at, dir_events, restarts, read_failed,
                   processing_lock, all_links, file_path, variant, page,
                   flow_log, failed_unchanged>>

\* update_media_json, lines 224-229: a write of json.dump fails (disk full,
\* I/O error); the except clause prints the error and the method returns,
\* the file keeps what had been written.
CatDumpFails ==
    /\ pc["main"] = "cat_dump"
    /\ pc' = [pc EXCEPT !["main"] = "idle"]
    /\ is_processing' = FALSE
    /\ media_data' = <<>>
    /\ UNCHANGED <<file_content, file_mtime, last_messages_content,
                   last_file_size, last_modification_time, processed_links,
                   media_file, download_dir, cur_stat, new_links, idx,
                   files_before, driver, sessions, success, downloaded_files,
                   initial_files, initial_sizes, phase, pending_events,
                   last_event_age, handler_sleep, poll_sleep, writes,
                   attempted, touch_rejected, burst, burst_clock, gate_runs,
                   elapsed, wake_at, dir_events, restarts, read_failed,
                   processing_lock, all_links, file_path, variant, page,
                   flow_log, failed_unchanged>>

\* The catalog file under updates for the links of the message store,
\* failing writes and restarts of the program.
NextCatalog ==
    \/ Restart
    \/ CatBegin
    \/ CatBuild
    \/ CatOpen
    \/ CatDump
    \/ CatDumpFails

SpecCatalog == InitCatalog /\ [][NextCatalog]_vars

(* -------- the message store written in place while it is watched ------- *)

\* The owner of the message store starts to write it with one more chat
\* message: the file holds the text up to a cut-off tail.
TornWriteBegins ==
    /\ MonitorsStarted
    /\ ~IsTorn(file_content)
    /\ Len(file_content) < MaxMsgs
    /\ file_content' = Append(file_content, Torn)
    /\ file_mtime' = file_mtime + 1
    /\ pending_events' \in Notified(pending_events)
    /\ writes' = writes + 1
    /\ failed_unchanged' = {}
    /\ UNCHANGED <<last_messages_content, last_file_size,
                   last_modification_time, processed_links, media_file,
                   download_dir, is_processing, pc, cur_stat, new_links, idx,
                   files_before, driver, sessions, success, downloaded_files,
                   initial_files, initial_sizes, phase, last_event_age,
                   handler_sleep, poll_sleep, attempted, touch_rejected,
                   burst, burst_clock, gate_runs, elapsed, wake_at,
                   dir_events, media_data, restarts, read_failed,
                   processing_lock, all_links, file_path, variant, page,
                   flow_log>>

\* The write is completed: the tail becomes a chat message with a link,
\* another link than the message before it.
TornWriteEnds ==
    /\ IsTorn(file_content)
    /\ \E m \in {ChatGD, ChatWT} :
          /\ IF Len(file_content) = 1 THEN TRUE
             ELSE m /= file_content[Len(file_content) - 1]
          /\ file_content' = [file_content EXCEPT ![Len(file_content)] = m]
    /\ file_mtime' = file_mtime + 1
    /\ pending_events' \in Notified(pending_events)
    /\ writes' = writes + 1
    /\ failed_unchanged' = {}
    /\ UNCHANGED <<last_messages_content, last_file_size,
                   last_modification_time, processed_links, media_file,
                   download_dir, is_processing, pc, cur_stat, new_links, idx,
                   files_before, driver, sessions, success, downloaded_files,
                   initial_files, initial_sizes, phase, last_event_age,
                   handler_sleep, poll_sleep, attempted, touch_rejected,
                   burst, burst_clock, gate_runs, elapsed, wake_at,
                   dir_events, media_data, restarts, read_failed,
                   processing_lock, all_links, file_path, variant, page,
                   flow_log>>

\* The monitors and the downloads over a message store whose owner writes
\* each new message in two steps.
NextTorn ==
    \/ TornWriteBegins
    \/ TornWriteEnds
    \/ LongWait
    \/ EventDispatch
    \/ EventTrigger
    \/ PollTrigger
    \/ BrowserStartsPartial
    \/ BrowserEndsPartial
    \/ BrowserDeposits
    \/ \E t \in Workers :
          \/ GateStat(t)
          \/ GateRead(t)
          \/ Extract(t)
          \/ Loop(t)
          \/ DlOpen(t)
          \/ DlFlow(t)
          \/ WdInit(t)
          \/ WdPoll(t)
          \/ WdRecheck(t)
          \/ WdFinal(t)
          \/ DlAfter(t)
          \/ DlUpdate(t)
          \/ DlCleanup(t)
          \/ UpdateState(t)
          \/ Finish(t)
          \/ DroppedReturn(t)

SpecTorn == InitWatch /\ [][NextTorn]_vars

(* --------- process_new_links entered through processing_lock ---------- *)
\* The call of process_new_links is about to be made: by main() at
\* start-up, by on_modified after its delay, by the poll loop after its
\* sleep.
CallReady(t) ==
    IF t = "main" THEN pc[t] = "start"
    ELSE IF t = "event" THEN pc[t] = "sleep" /\ handler_sleep = 0
    ELSE MonitorsStarted /\ pc[t] = "idle" /\ poll_sleep = 0

\* process_new_links, line 280: "with self.processing_lock" acquires the
\* lock; a thread that finds it held blocks until it is free.
LockAcquire(t) ==
    /\ CallReady(t)
    /\ processing_lock = "free"
    /\ processing_lock' = t
    /\ pc' = [pc EXCEPT ![t] = "locked"]
    /\ UNCHANGED <<file_content, file_mtime, last_messages_content,
                   last_file_size, last_modification_time, processed_links,
                   media_file, download_dir, is_processing, cur_stat,
                   new_links, idx, files_before, driver, sessions, success,
                   downloaded_files, initial_files, initial_sizes, phase,
                   pending_events, last_event_age, handler_sleep, poll_sleep,
                   writes, attempted, touch_rejected, burst, burst_clock,
                   gate_runs, elapsed, wake_at, dir_events, media_data,
                   restarts, read_failed, all_links, file_path, variant,
                   page, flow_log, failed_unchanged>>

\* process_new_links, lines 281-285: the busy flag is tested and set, and the
\* with block ends, which releases the lock: by return for a dropped call,
\* by falling through to the try block of line 287 otherwise.
LockedSection(t) ==
    /\ pc[t] = "locked"
    /\ processing_lock = t
    /\ processing_lock' = "free"
    /\ IF Accepted(t)
       THEN EnterProcessing(t)
       ELSE SkipCall(t)
    /\ UNCHANGED <<file_content, file_mtime, last_messages_content,
                   last_file_size, last_modification_time, processed_links,
                   media_file, download_dir, cur_stat, new_links, idx,
                   files_before, driver, sessions, success, downloaded_files,
                   initial_files, initial_sizes, phase, pending_events,
                   last_event_age, handler_sleep, poll_sleep, writes,
                   attempted, touch_rejected, burst, burst_clock, gate_runs,
                   elapsed, wake_at, dir_events, media_data, restarts,
                   read_failed, all_links, file_path, variant, page,
                   flow_log, failed_unchanged>>

\* The orchestrator as in Spec, with the entry of process_new_links taken
\* in two steps: acquiring the lock, then the section under it.
NextLock ==
    \/ AppendMessage
    \/ LongWait
    \/ EventDispatch
    \/ BrowserStartsPartial
    \/ BrowserEndsPartial
    \/ BrowserDeposits
    \/ \E t \in Threads :
          \/ LockAcquire(t)
          \/ LockedSection(t)
          \/ GateStat(t)
          \/ GateRead(t)
          \/ Extract(t)
          \/ Loop(t)
          \/ DlOpen(t)
          \/ DlFlow(t)
          \/ WdInit(t)
          \/ WdPoll(t)
          \/ WdRecheck(t)
          \/ WdFinal(t)
          \/ DlAfter(t)
          \/ DlUpdate(t)
          \/ DlCleanup(t)
          \/ UpdateState(t)
          \/ Finish(t)
          \/ DroppedReturn(t)

SpecLock == Init /\ [][NextLock]_vars

(* ------------- the provider flows of SeleniumVideoDownloader ----------- *)
\* Most elements of one page.
MaxElements == 2

\* The source files whose download_google_drive_selenium differ.
Variants == {"backend", "selenium"}

\* Attribute values and page texts are strings of a small vocabulary;
\* Parts(s) lists the substrings of s that the selectors and the page
\* tests of the flows ask for.
HREF_CONFIRM == "/uc?export=download&confirm=t&id=a1"
HREF_HELP == "/support/answer"
SRC_VIRUS == "<title>Google Drive - Virus scan warning</title> Google Drive can't scan this file for viruses. Download anyway"
SRC_QUOTA == "Sorry, you can't view or download this file at this time. Too many users have viewed or downloaded this file recently."
SRC_DENIED == "You need access. Request access, or switch to an account with access."
TITLE_VIRUS == "Google Drive - Virus scan warning"
TITLE_QUOTA == "Google Drive - Quota exceeded"
TITLE_DENIED == "Google Drive - Access denied"

\* str.lower() of a page text, then the substrings it is searched for.
Parts(s) ==
    CASE s = HREF_CONFIRM -> {"confirm=", "&confirm=", "confirm=t", "confirm"}
      [] s = "Download anyway" -> {"Download anyway", "Download"}
      [] s = "download-form" -> {"download-form"}
      [] s = "uc-download-link" -> {"download-link"}
      [] s = SRC_VIRUS -> {"virus", "virus scan warning",
                           "can't scan this file for viruses"}
      [] s = TITLE_VIRUS -> {"virus", "virus scan warning"}
      [] s = "cookie-accept" -> {"cookie", "accept"}
      [] s = "cookie-settings" -> {"cookie"}
      [] s = "Accept all cookies" -> {"Accept"}
      [] OTHER -> {}

Has(s, sub) == sub \in Parts(s)

\* A form an element can stand in.
NoForm == [id |-> "", action |-> "", method |-> ""]
DownloadForm == [id |-> "download-form", action |-> HREF_CONFIRM, method |-> "post"]

\* What WebElement.click() and execute_script("arguments[0].click()") do on
\* an element: both return, the first raises (element covered), both raise
\* (element gone from the page).
ClickBehaviours == {"ok", "native_raises", "both_raise"}

\* A DOM element as the flows see it: its markup, the characters of its
\* first text node, is_displayed(), is_enabled(), and how clicks end.
Element(markup, text, displayed, enabled, click) ==
    [tag |-> markup.tag, type |-> markup.type, name |-> markup.name,
     value |-> markup.value, id |-> markup.id, href |-> markup.href,
     label |-> markup.label, testid |-> markup.testid,
     within |-> markup.within, form |-> markup.form,
     text |-> text, displayed |-> displayed, enabled |-> enabled,
     click |-> click]

Markup(tag, type, name, value, id, href, label, testid, within, form) ==
    [tag |-> tag, type |-> type, name |-> name, value |-> value, id |-> id,
     href |-> href, label |-> label, testid |-> testid, within |-> within,
     form |-> form]

\* CSS selectors of handle_google_drive_virus_warning (backend) and of
\* download_google_drive_selenium (selenium), and of the cookie step of
\* handle_wetransfer_flow: whether element e matches.
Matches(selector, e) ==
    CASE selector = "form[action*='confirm'] input[type='submit']" ->
            e.tag = "input" /\ e.type = "submit" /\ Has(e.form.action, "confirm")
      [] selector = "form[action*='confirm'] button" ->
            e.tag = "button" /\ Has(e.form.action, "confirm")
      [] selector = "a[href*='confirm=']" -> e.tag = "a" /\ Has(e.href, "confirm=")
      [] selector = "a[href*='&confirm=']" -> e.tag = "a" /\ Has(e.href, "&confirm=")
      [] selector = "#download-form input[type='submit']" ->
            e.tag = "input" /\ e.type = "submit" /\ e.form.id = "download-form"
      [] selector = "#download-form button" ->
            e.tag = "button" /\ e.form.id = "download-form"
      [] selector = "input[value*='Download anyway']" ->
            e.tag = "input" /\ Has(e.value, "Download anyway")
      [] selector = "button[value*='Download anyway']" ->
            e.tag = "button" /\ Has(e.value, "Download anyway")
      [] selector = "input[name='confirm']" -> e.tag = "input" /\ e.name = "confirm"
      [] selector = "form input[type='submit']" ->
            e.tag = "input" /\ e.type = "submit" /\ e.form /= NoForm
      [] selector = "form[method='post'] input[type='submit']" ->
            e.tag = "input" /\ e.type = "submit" /\ e.form.method = "post"
      [] selector = "form[method='post'] button[type='submit']" ->
            e.tag = "button" /\ e.type = "submit" /\ e.form.method = "post"
      [] selector = "a#uc-download-link" -> e.tag = "a" /\ e.id = "uc-download-link"
      [] selector = "a[id*='download-link']" -> e.tag = "a" /\ Has(e.id, "download-link")
      [] selector = "form[id='download-form'] button" ->
            e.tag = "button" /\ e.form.id = "download-form"
      [] selector = "form[id='downloadForm'] button" ->
            e.tag = "button" /\ e.form.id = "downloadForm"
      [] selector = "button[aria-label*='Download']" ->
            e.tag = "button" /\ Has(e.label, "Download")
      [] selector = "a[href*='confirm=t']" -> e.tag = "a" /\ Has(e.href, "confirm=t")
      [] selector = "a[href*='confirm=no_antivirus']" ->
            e.tag = "a" /\ Has(e.href, "confirm=no_antivirus")
      [] selector = ".uc-error-subcaption a" ->
            e.tag = "a" /\ e.within = "uc-error-subcaption"
      [] selector = "noscript a[href*='confirm']" ->
            e.tag = "a" /\ e.within = "noscript" /\ Has(e.href, "confirm")
      [] selector = "button[data-testid*='accept']" ->
            e.tag = "button" /\ Has(e.testid, "accept")
      [] selector = "button[data-testid*='cookie']" ->
            e.tag = "button" /\ Has(e.testid, "cookie")
      [] selector = "[data-qa*='cookie'] button" ->
            e.tag = "button" /\ e.within = "data-qa-cookie"
      [] selector = ".cookie-consent button" ->
            e.tag = "button" /\ e.within = "cookie-consent"
      [] selector = "button[aria-label*='Accept']" ->
            e.tag = "button" /\ Has(e.label, "Accept")
      [] OTHER -> FALSE

\* handle_google_drive_virus_warning, lines 534-547
download_anyway_selectors ==
    << "form[action*='confirm'] input[type='submit']",
       "form[action*='confirm'] button",
       "a[href*='confirm=']",
       "a[href*='&confirm=']",
       "#download-form input[type='submit']",
       "#download-form button",
       "input[value*='Download anyway']",
       "button[value*='Download anyway']",
       "input[name='confirm']",
       "form input[type='submit']",
       "form[method='post'] input[type='submit']",
       "form[method='post'] button[type='submit']" >>

\* download_google_drive_selenium of the selenium file, lines 630-645
download_selectors ==
    << "a#uc-download-link",
       "a[id*='download-link']",
       "form[id='download-form'] button",
       "form[id='downloadForm'] button",
       "input[name='confirm']",
       "button[aria-label*='Download']",
       "a[href*='confirm=t']",
       "a[href*='confirm=no_antivirus']",
       "form[action*='confirm'] button",
       "form[method='post'] button[type='submit']",
       "#download-form input[type='submit']",
       ".uc-error-subcaption a",
       "noscript a[href*='confirm']" >>

\* Ways an element of a page is found: visible and usable, not displayed,
\* displayed but disabled, visible with clicks that raise.
Conditions ==
    {[displayed |-> TRUE, enabled |-> TRUE, click |-> c] : c \in ClickBehaviours}
      \cup {[displayed |-> FALSE, enabled |-> TRUE, click |-> "ok"],
            [displayed |-> TRUE, enabled |-> FALSE, click |-> "ok"]}

\* Markup met on the virus warning page of Google Drive: the "Download
\* anyway" link, the submit input of the download form, a help link.
UcLink ==
    Markup("a", "", "", "", "uc-download-link", HREF_CONFIRM, "", "",
           "uc-error-subcaption", NoForm)
FormSubmit ==
    Markup("input", "submit", "", "Download anyway", "", "", "", "", "",
           DownloadForm)
HelpLink == Markup("a", "", "", "", "", HREF_HELP, "", "", "", NoForm)

WarningElements ==
    {Element(mk, <<>>, c.displayed, c.enabled, c.click) :
        mk \in {UcLink, FormSubmit, HelpLink}, c \in Conditions}

\* The element lists of at most MaxElements elements, in document order.
ElementLists(pool) ==
    UNION {[1..n -> pool] : n \in 0..MaxElements}

\* Pages the direct download URL ends on: the download starts (the page
\* stays blank), the virus scan warning, quota exceeded, access denied.
NormalPage == [kind |-> "normal", title |-> "", source |-> "", elements |-> <<>>]
QuotaPage ==
    [kind |-> "quota", title |-> TITLE_QUOTA, source |-> SRC_QUOTA, elements |-> <<>>]
DeniedPage ==
    [kind |-> "denied", title |-> TITLE_DENIED, source |-> SRC_DENIED, elements |-> <<>>]
WarningPages ==
    {[kind |-> "virus", title |-> TITLE_VIRUS, source |-> SRC_VIRUS, elements |-> es] :
        es \in ElementLists(WarningElements)}
DirectPages == {NormalPage, QuotaPage, DeniedPage} \cup WarningPages

\* download_google_drive_selenium, backend line 606, selenium line 623:
\* the test for the virus scan warning.
IsVirusWarning(v, p) ==
    IF v = "backend"
    THEN Has(p.title, "virus scan warning") \/ Has(p.source, "virus")
    ELSE Has(p.source, "virus scan warning")
           \/ Has(p.source, "can't scan this file for viruses")

\* One entry of flow_log: a navigation (driver.get), a click attempt on
\* element el of the page in a step of the flow, found by matcher sel, or
\* a call of wait_for_download_completion.
Did(op, step, sel, el, how) ==
    [op |-> op, step |-> step, sel |-> sel, el |-> el, how |-> how]
Navigated(step) == Did("get", step, 0, 0, "")
Waited(step) == Did("wait", step, 0, 0, "")

\* The handler without its return: every displayed match is clicked.
RECURSIVE BypassClicks_NoReturn(_, _, _)
BypassClicks_NoReturn(selectors, elements, k) ==
    LET n == Len(elements)
        s == ((k - 1) \div n) + 1
        i == ((k - 1) % n) + 1
        rest == BypassClicks_NoReturn(selectors, elements, k + 1)
    IN IF n = 0 \/ k > Len(selectors) * n THEN [log |-> <<>>, acted |-> FALSE]
       ELSE IF ~(Matches(selectors[s], elements[i]) /\ elements[i].displayed) THEN rest
       ELSE [log |-> <<Did("click", "bypass", s, i, "native")>> \o rest.log,
             acted |-> TRUE]

\* handle_google_drive_virus_warning, lines 549-568, from the k-th pair of
\* selector and element on: a displayed match is scrolled to and clicked;
\* if that raises, clicked by script; if that raises too, the search goes
\* on. The result is the clicks attempted and whether one returned.
RECURSIVE BypassClicks(_, _, _)
BypassClicks(selectors, elements, k) ==
    LET n == Len(elements)
        s == ((k - 1) \div n) + 1
        i == ((k - 1) % n) + 1
        e == elements[i]
        rest == BypassClicks(selectors, elements, k + 1)
    IN IF n = 0 \/ k > Len(selectors) * n THEN [log |-> <<>>, acted |-> FALSE]
       ELSE IF ~(Matches(selectors[s], e) /\ e.displayed) THEN rest
       ELSE IF e.click = "ok"
       THEN [log |-> <<Did("click", "bypass", s, i, "native")>>, acted |-> TRUE]
       ELSE IF e.click = "native_raises"
       THEN [log |-> <<Did("click", "bypass", s, i, "native"),
                       Did("click", "bypass", s, i, "script")>>, acted |-> TRUE]
       ELSE [log |-> <<Did("click", "bypass", s, i, "native"),
                       Did("click", "bypass", s, i, "script")>> \o rest.log,
             acted |-> rest.acted]

\* download_google_drive_selenium of the selenium file, lines 647-673
\* (method 1), from the k-th pair of selector and element on: a displayed
\* match with a confirm link is navigated to, any other displayed match is
\* clicked, by script if the click raises; an exception of the script
\* click ends the selector and the search goes on with the next one.
RECURSIVE Method1(_, _, _)
Method1(selectors, elements, k) ==
    LET n == Len(elements)
        s == ((k - 1) \div n) + 1
        i == ((k - 1) % n) + 1
        e == elements[i]
    IN IF n = 0 \/ k > Len(selectors) * n THEN [log |-> <<>>, acted |-> FALSE]
       ELSE IF ~(Matches(selectors[s], e) /\ e.displayed)
       THEN Method1(selectors, elements, k + 1)
       ELSE IF Has(e.href, "confirm=")
       THEN [log |-> <<Did("get", "bypass", s, i, "href")>>, acted |-> TRUE]
       ELSE IF e.click = "ok"
       THEN [log |-> <<Did("click", "bypass", s, i, "native")>>, acted |-> TRUE]
       ELSE IF e.click = "native_raises"
       THEN [log |-> <<Did("click", "bypass", s, i, "native"),
                       Did("click", "bypass", s, i, "script")>>, acted |-> TRUE]
       ELSE LET rest == Method1(selectors, elements, s * n + 1)
            IN [log |-> <<Did("click", "bypass", s, i, "native"),
                          Did("click", "bypass", s, i, "script")>> \o rest.log,
                acted |-> rest.acted]

\* download(), lines 704-716: the flow of the link's provider.
Provider(url) == IF url = GD_URL THEN "drive" ELSE "wetransfer"

\* The flow of download() on its own: a driver is ready, the link is
\* about to be opened.
InitFlow ==
    /\ file_content \in {<<ChatGD>>, <<ChatWT>>}
    /\ new_links = [t \in Threads |-> IF t = "main" THEN LinksOf(file_content) ELSE <<>>]
    /\ variant \in Variants
    /\ page = NoPage
    /\ flow_log = <<>>
    /\ processing_lock = "free"
    /\ all_links = <<>>
    /\ file_path = <<>>
    /\ file_mtime = 0
    /\ last_messages_content = <<>>
    /\ last_file_size = 0
    /\ last_modification_time = 0
    /\ media_file = NoFile
    /\ processed_links = {}
    /\ download_dir = EmptyDir
    /\ is_processing = TRUE
    /\ pc = [t \in Threads |-> IF t = "main" THEN "fl_open" ELSE "idle"]
    /\ cur_stat = [t \in Threads |-> NoStat]
    /\ idx = [t \in Threads |-> IF t = "main" THEN 1 ELSE 0]
    /\ files_before = [t \in Threads |-> {}]
    /\ driver = [t \in Threads |-> t = "main"]
    /\ sessions = 1
    /\ success = [t \in Threads |-> FALSE]
    /\ downloaded_files = [t \in Threads |-> {}]
    /\ initial_files = [t \in Threads |-> {}]
    /\ initial_sizes = [t \in Threads |-> EmptyDir]
    /\ phase = [t \in Threads |-> "none"]
    /\ pending_events = 0
    /\ last_event_age = DEBOUNCE_COOLDOWN
    /\ handler_sleep = 0
    /\ poll_sleep = 0
    /\ writes = 0
    /\ attempted = {CurrentUrl("main")}
    /\ touch_rejected = FALSE
    /\ burst = 0
    /\ burst_clock = 0
    /\ gate_runs = 0
    /\ elapsed = 0
    /\ wake_at = 0
    /\ dir_events = {}
    /\ media_data = <<>>
    /\ restarts = 0
    /\ read_failed = FALSE
    /\ failed_unchanged = {}

\* The flow returns to download() with this result.
FlowReturns(result) ==
    /\ pc' = [pc EXCEPT !["main"] = "fl_done"]
    /\ success' = [success EXCEPT !["main"] = result]

\* download_google_drive_selenium, lines 580-594 (selenium 596-612):
\* driver.get(url) and the file id. The backend file reads the id from the
\* URL the browser ends on, so a redirect (sign-in page) leaves none; the
\* selenium file reads it from the link first. An exception of driver.get
\* returns False.
GdOpen ==
    /\ pc["main"] = "fl_open"
    /\ Provider(CurrentUrl("main")) = "drive"
    /\ \E raised \in BOOLEAN, redirected \in BOOLEAN :
          IF raised \/ (redirected /\ variant = "backend")
          THEN /\ FlowReturns(FALSE)
               /\ flow_log' = IF raised THEN flow_log
                              ELSE Append(flow_log, Navigated("link"))
          ELSE /\ pc' = [pc EXCEPT !["main"] = "gd_direct"]
               /\ flow_log' = Append(flow_log, Navigated("link"))
               /\ UNCHANGED success
    /\ UNCHANGED <<file_content, file_mtime, last_messages_content,
                   last_file_size, last_modification_time, processed_links,
                   media_file, download_dir, is_processing, cur_stat,
                   new_links, idx, files_before, driver, sessions,
                   downloaded_files, initial_files, initial_sizes, phase,
                   pending_events, last_event_age, handler_sleep, poll_sleep,
                   writes, attempted, touch_rejected, burst, burst_clock,
                   gate_runs, elapsed, wake_at, dir_events, media_data,
                   restarts, read_failed, processing_lock, all_links,
                   file_path, variant, page, failed_unchanged>>

\* download_google_drive_selenium, lines 596-604 (selenium 616-622):
\* driver.get(direct_url), then page source and title are read, and the page
\* is tested for the virus scan warning (backend line 606, selenium line
\* 623). The backend file goes to the bypass or to the detector, the
\* selenium file to its bypass or to its wait for an automatic download.
GdDirect ==
    /\ pc["main"] = "gd_direct"
    /\ \E p \in DirectPages :
          /\ page' = p
          /\ flow_log' = Append(flow_log, Navigated("direct"))
          /\ pc' = [pc EXCEPT !["main"] =
                       IF IsVirusWarning(variant, p)
                       THEN (IF variant = "backend" THEN "gd_bypass" ELSE "se_bypass")
                       ELSE (IF variant = "backend" THEN "gd_wait" ELSE "se_wait2")]
    /\ UNCHANGED <<file_content, file_mtime, last_messages_content,
                   last_file_size, last_modification_time, processed_links,
                   media_file, download_dir, is_processing, cur_stat,
                   new_links, idx, files_before, driver, sessions, success,
                   downloaded_files, initial_files, initial_sizes, phase,
                   pending_events, last_event_age, handler_sleep, poll_sleep,
                   writes, attempted, touch_rejected, burst, burst_clock,
                   gate_runs, elapsed, wake_at, dir_events, media_data,
                   restarts, read_failed, processing_lock, all_links,
                   file_path, variant, failed_unchanged>>

\* download_google_drive_selenium, lines 608-615, with
\* handle_google_drive_virus_warning, lines 529-571: if an element was
\* clicked the flow waits for the download, otherwise it returns False.
GdBypass ==
    /\ pc["main"] = "gd_bypass"
    /\ LET r == BypassClicks(download_anyway_selectors, page.elements, 1)
       IN /\ flow_log' = flow_log \o r.log
          /\ IF r.acted
             THEN /\ pc' = [pc EXCEPT !["main"] = "gd_wait"]
                  /\ UNCHANGED success
             ELSE FlowReturns(FALSE)
    /\ UNCHANGED <<file_content, file_mtime, last_messages_content,
                   last_file_size, last_modification_time, processed_links,
                   media_file, download_dir, is_processing, cur_stat,
                   new_links, idx, files_before, driver, sessions,
                   downloaded_files, initial_files, initial_sizes, phase,
                   pending_events, last_event_age, handler_sleep, poll_sleep,
                   writes, attempted, touch_rejected, burst, burst_clock,
                   gate_runs, elapsed, wake_at, dir_events, media_data,
                   restarts, read_failed, processing_lock, all_links,
                   file_path, variant, page, failed_unchanged>>

\* download_google_drive_selenium of the selenium file, lines 623-702: method
\* 1 over the selectors; if it did not act, method 2 navigates to a confirm
\* URL built from the page's token or from the token "t" (an exception of
\* driver.get leaves the warning unhandled). Handled or not, the flow goes
\* on: to the wait after the bypass, or to the wait for an automatic
\* download.
SeBypass ==
    /\ pc["main"] = "se_bypass"
    /\ \E get_raises \in BOOLEAN :
          LET r == Method1(download_selectors, page.elements, 1)
              handled == r.acted \/ ~get_raises
          IN /\ flow_log' = IF r.acted THEN flow_log \o r.log
                            ELSE flow_log \o r.log \o <<Did("get", "bypass", 0, 0,
                                      IF get_raises THEN "raised" ELSE "token")>>
             /\ pc' = [pc EXCEPT !["main"] = IF handled THEN "se_wait1" ELSE "se_wait2"]
    /\ UNCHANGED <<file_content, file_mtime, last_messages_content,
                   last_file_size, last_modification_time, processed_links,
                   media_file, download_dir, is_processing, cur_stat,
                   new_links, idx, files_before, driver, sessions, success,
                   downloaded_files, initial_files, initial_sizes, phase,
                   pending_events, last_event_age, handler_sleep, poll_sleep,
                   writes, attempted, touch_rejected, burst, burst_clock,
                   gate_runs, elapsed, wake_at, dir_events, media_data,
                   restarts, read_failed, processing_lock, all_links,
                   file_path, variant, page, failed_unchanged>>

\* wait_for_download_completion called by a flow: backend lines 612 and 619
\* return its result; the selenium file returns True (lines 706, 716) or
\* goes on after a failure, to the next wait or to the alternative URL; its
\* last wait (line 725) returns the result. handle_wetransfer_flow's caller
\* returns the result (line 695).
FlowWait ==
    /\ pc["main"] \in {"gd_wait", "se_wait1", "se_wait2", "se_wait3", "wt_wait"}
    /\ flow_log' = Append(flow_log, Waited(pc["main"]))
    /\ \E found \in BOOLEAN :
          IF found \/ pc["main"] \in {"gd_wait", "se_wait3", "wt_wait"}
          THEN FlowReturns(found)
          ELSE /\ pc' = [pc EXCEPT !["main"] =
                            IF pc["main"] = "se_wait1" THEN "se_wait2" ELSE "se_alt"]
               /\ UNCHANGED success
    /\ UNCHANGED <<file_content, file_mtime, last_messages_content,
                   last_file_size, last_modification_time, processed_links,
                   media_file, download_dir, is_processing, cur_stat,
                   new_links, idx, files_before, driver, sessions,
                   downloaded_files, initial_files, initial_sizes, phase,
                   pending_events, last_event_age, handler_sleep, poll_sleep,
                   writes, attempted, touch_rejected, burst, burst_clock,
                   gate_runs, elapsed, wake_at, dir_events, media_data,
                   restarts, read_failed, processing_lock, all_links,
                   file_path, variant, page, failed_unchanged>>

\* download_google_drive_selenium of the selenium file, lines 718-722: the
\* alternative download URL is opened; an exception returns False.
SeAlt ==
    /\ pc["main"] = "se_alt"
    /\ \E raised \in BOOLEAN :
          /\ flow_log' = Append(flow_log, Navigated(IF raised THEN "alt_raised" ELSE "alt"))
          /\ IF raised THEN FlowReturns(FALSE)
             ELSE /\ pc' = [pc EXCEPT !["main"] = "se_wait3"]
                  /\ UNCHANGED success
    /\ UNCHANGED <<file_content, file_mtime, last_messages_content,
                   last_file_size, last_modification_time, processed_links,
                   media_file, download_dir, is_processing, cur_stat,
                   new_links, idx, files_before, driver, sessions,
                   downloaded_files, initial_files, initial_sizes, phase,
                   pending_events, last_event_age, handler_sleep, poll_sleep,
                   writes, attempted, touch_rejected, burst, burst_clock,
                   gate_runs, elapsed, wake_at, dir_events, media_data,
                   restarts, read_failed, processing_lock, all_links,
                   file_path, variant, page, failed_unchanged>>

(* handle_wetransfer_flow: texts are sequences of characters *)
T_download == <<"d", "o", "w", "n", "l", "o", "a", "d">>
T_DOWNLOAD == <<"D", "O", "W", "N", "L", "O", "A", "D">>
T_agree == <<"a", "g", "r", "e", "e">>
T_AGREE == <<"A", "G", "R", "E", "E">>
T_Download == <<"D", "o", "w", "n", "l", "o", "a", "d">>
T_DownloadPadded == <<" ", "D", "O", "W", "N", "L", "O", "A", "D", " ">>
T_ScanAndDownload ==
    <<"S", "c", "a", "n", " ", "a", "n", "d", " ">> \o T_download
T_IAgree == <<"I", " ", "a", "g", "r", "e", "e">>
T_Accept == <<"A", "c", "c", "e", "p", "t">>

\* XPath translate(s, from, to): a character of from becomes the
\* character of to at the place of its first occurrence in from.
translate(s, from, to) ==
    [i \in 1..Len(s) |->
        IF \E j \in 1..Len(from) : from[j] = s[i]
        THEN to[CHOOSE j \in 1..Len(from) :
                    from[j] = s[i] /\ \A k \in 1..(j - 1) : from[k] /= s[i]]
        ELSE s[i]]

\* XPath normalize-space(s): leading and trailing blanks removed, runs of
\* blanks replaced by one.
RECURSIVE Collapsed(_, _)
Collapsed(s, after_blank) ==
    IF s = <<>> THEN <<>>
    ELSE IF Head(s) = " "
    THEN (IF after_blank THEN <<>> ELSE <<" ">>) \o Collapsed(Tail(s), TRUE)
    ELSE <<Head(s)>> \o Collapsed(Tail(s), FALSE)

normalize_space(s) ==
    LET c == Collapsed(s, TRUE)
    IN IF c /= <<>> /\ c[Len(c)] = " " THEN SubSeq(c, 1, Len(c) - 1) ELSE c

\* XPath contains(s, sub)
contains(s, sub) ==
    \E i \in 0..(Len(s) - Len(sub)) : SubSeq(s, i + 1, i + Len(sub)) = sub

\* lines 628-634
cookie_selectors ==
    << "button[data-testid*='accept']",
       "button[data-testid*='cookie']",
       "[data-qa*='cookie'] button",
       ".cookie-consent button",
       "button[aria-label*='Accept']" >>

\* line 649: //button[contains(translate(text(), 'AGREE', 'agree'), 'agree')]
agree_xpath(e) ==
    e.tag = "button" /\ contains(translate(e.text, T_AGREE, T_agree), T_agree)

\* The download element looked up by a text that only contains "download".
exact_download_xpath_Contains(e) ==
    /\ e.tag \in {"button", "a"}
    /\ contains(normalize_space(translate(e.text, T_DOWNLOAD, T_download)), T_download)

\* line 662: //button[normalize-space(translate(text(), 'DOWNLOAD',
\* 'download'))='download'] | //a[...]
exact_download_xpath(e) ==
    /\ e.tag \in {"button", "a"}
    /\ normalize_space(translate(e.text, T_DOWNLOAD, T_download)) = T_download

\* Markup met on a WeTransfer page: the cookie banner's two buttons, the
\* terms button, the plain download button and link, the combined
\* "Scan and download" button.
BtnCookieAccept ==
    Markup("button", "", "", "", "", "", "Accept all cookies", "cookie-accept",
           "cookie-consent", NoForm)
BtnCookieSettings ==
    Markup("button", "", "", "", "", "", "", "cookie-settings", "cookie-consent", NoForm)
BtnPlain == Markup("button", "", "", "", "", "", "", "", "", NoForm)
LinkPlain == Markup("a", "", "", "", "", HREF_HELP, "", "", "", NoForm)

TransferElements ==
    {Element(x.markup, x.text, c.displayed, c.enabled, c.click) :
        x \in {[markup |-> BtnCookieAccept, text |-> T_Accept],
               [markup |-> BtnCookieSettings, text |-> <<>>],
               [markup |-> BtnPlain, text |-> T_IAgree],
               [markup |-> BtnPlain, text |-> T_Download],
               [markup |-> LinkPlain, text |-> T_DownloadPadded],
               [markup |-> BtnPlain, text |-> T_ScanAndDownload]},
        c \in Conditions}

TransferPages ==
    {[kind |-> "transfer", title |-> "WeTransfer", source |-> "", elements |-> es] :
        es \in ElementLists(TransferElements)}

\* The first of the found elements (found: their places in the page), in
\* document order, that is displayed and enabled; 0 if there is none.
FirstUsable(elements, found) ==
    LET usable == {i \in found : elements[i].displayed /\ elements[i].enabled}
    IN IF usable = {} THEN 0 ELSE CHOOSE i \in usable : \A j \in usable : i <= j

\* An optional step that clicked nothing ends the flow.
AfterOptional_Required(clicks, next) == IF clicks = <<>> THEN "fl_done" ELSE next

\* lines 627-658: the cookie step and the agree step are each in a try
\* block of their own; with or without a click, and after an exception,
\* the flow goes on with the next step.
AfterOptional(clicks, next) == next

\* lines 636-646: for every cookie selector in turn, the first displayed
\* and enabled match is clicked by script; break leaves the inner loop
\* only, an exception goes on with the next selector.
RECURSIVE CookieClicks(_, _)
CookieClicks(elements, s) ==
    IF s > Len(cookie_selectors) THEN <<>>
    ELSE LET found == {j \in DOMAIN elements : Matches(cookie_selectors[s], elements[j])}
             i == FirstUsable(elements, found)
         IN (IF i = 0 THEN <<>> ELSE <<Did("click", "cookie", s, i, "script")>>)
               \o CookieClicks(elements, s + 1)

\* download_wetransfer_selenium, lines 683-689: driver.get(url); an exception
\* returns False.
WtOpen ==
    /\ pc["main"] = "fl_open"
    /\ Provider(CurrentUrl("main")) = "wetransfer"
    /\ \E raised \in BOOLEAN, p \in TransferPages :
          IF raised
          THEN /\ FlowReturns(FALSE)
               /\ UNCHANGED <<page, flow_log>>
          ELSE /\ page' = p
               /\ flow_log' = Append(flow_log, Navigated("link"))
               /\ pc' = [pc EXCEPT !["main"] = "wt_cookies"]
               /\ UNCHANGED success
    /\ UNCHANGED <<file_content, file_mtime, last_messages_content,
                   last_file_size, last_modification_time, processed_links,
                   media_file, download_dir, is_processing, cur_stat,
                   new_links, idx, files_before, driver, sessions,
                   downloaded_files, initial_files, initial_sizes, phase,
                   pending_events, last_event_age, handler_sleep, poll_sleep,
                   writes, attempted, touch_rejected, burst, burst_clock,
                   gate_runs, elapsed, wake_at, dir_events, media_data,
                   restarts, read_failed, processing_lock, all_links,
                   file_path, variant, failed_unchanged>>

\* handle_wetransfer_flow, lines 627-646: the cookie step.
WtCookies ==
    /\ pc["main"] = "wt_cookies"
    /\ LET clicks == CookieClicks(page.elements, 1)
       IN /\ flow_log' = flow_log \o clicks
          /\ pc' = [pc EXCEPT !["main"] = AfterOptional(clicks, "wt_agree")]
    /\ UNCHANGED <<file_content, file_mtime, last_messages_content,
                   last_file_size, last_modification_time, processed_links,
                   media_file, download_dir, is_processing, cur_stat,
                   new_links, idx, files_before, driver, sessions, success,
                   downloaded_files, initial_files, initial_sizes, phase,
                   pending_events, last_event_age, handler_sleep, poll_sleep,
                   writes, attempted, touch_rejected, burst, burst_clock,
                   gate_runs, elapsed, wake_at, dir_events, media_data,
                   restarts, read_failed, processing_lock, all_links,
                   file_path, variant, page, failed_unchanged>>

\* handle_wetransfer_flow, lines 648-658: the first displayed and enabled
\* "agree" button is clicked by script; an exception is passed over.
WtAgree ==
    /\ pc["main"] = "wt_agree"
    /\ LET found == {j \in DOMAIN page.elements : agree_xpath(page.elements[j])}
           i == FirstUsable(page.elements, found)
           clicks == IF i = 0 THEN <<>> ELSE <<Did("click", "agree", 1, i, "script")>>
       IN /\ flow_log' = flow_log \o clicks
          /\ pc' = [pc EXCEPT !["main"] = AfterOptional(clicks, "wt_download")]
    /\ UNCHANGED <<file_content, file_mtime, last_messages_content,
                   last_file_size, last_modification_time, processed_links,
                   media_file, download_dir, is_processing, cur_stat,
                   new_links, idx, files_before, driver, sessions, success,
                   downloaded_files, initial_files, initial_sizes, phase,
                   pending_events, last_event_age, handler_sleep, poll_sleep,
                   writes, attempted, touch_rejected, burst, burst_clock,
                   gate_runs, elapsed, wake_at, dir_events, media_data,
                   restarts, read_failed, processing_lock, all_links,
                   file_path, variant, page, failed_unchanged>>

\* handle_wetransfer_flow, lines 660-678, and its caller, lines 691-698: the
\* first displayed and enabled element with the exact text is clicked by
\* script and the caller waits for the download; if the click raises, or
\* without such an element, the flow returns False.
WtDownload ==
    /\ pc["main"] = "wt_download"
    /\ LET found == {j \in DOMAIN page.elements : exact_download_xpath(page.elements[j])}
           i == FirstUsable(page.elements, found)
           clicked == i /= 0 /\ page.elements[i].click /= "both_raise"
       IN /\ flow_log' = IF i = 0 THEN flow_log
                         ELSE Append(flow_log, Did("click", "download", 1, i, "script"))
          /\ IF clicked
             THEN /\ pc' = [pc EXCEPT !["main"] = "wt_wait"]
                  /\ UNCHANGED success
             ELSE FlowReturns(FALSE)
    /\ UNCHANGED <<file_content, file_mtime, last_messages_content,
                   last_file_size, last_modification_time, processed_links,
                   media_file, download_dir, is_processing, cur_stat,
                   new_links, idx, files_before, driver, sessions,
                   downloaded_files, initial_files, initial_sizes, phase,
                   pending_events, last_event_age, handler_sleep, poll_sleep,
                   writes, attempted, touch_rejected, burst, burst_clock,
                   gate_runs, elapsed, wake_at, dir_events, media_data,
                   restarts, read_failed, processing_lock, all_links,
                   file_path, variant, page, failed_unchanged>>

\* One call of download() for a link of either provider, over every page
\* the providers can answer with.
NextFlow ==
    \/ GdOpen
    \/ GdDirect
    \/ GdBypass
    \/ SeBypass
    \/ FlowWait
    \/ SeAlt
    \/ WtOpen
    \/ WtCookies
    \/ WtAgree
    \/ WtDownload

SpecFlow == InitFlow /\ [][NextFlow]_vars

(* ------------- update_media_json's classification of one file ---------- *)
\* File names: a stem (plain, hidden, dotted, empty) and an ending.
Stems ==
    {<<"c", "l", "i", "p">>, <<".", "c", "l", "i", "p">>, <<"a", ".", "b">>,
     <<>>}
Endings ==
    {<<".", "m", "p", "4">>, <<".", "M", "P", "4">>, <<".", "M", "p", "4">>,
     <<".", "a", "v", "i">>, <<".", "m", "o", "v">>, <<".", "M", "O", "V">>,
     <<".", "m", "k", "v">>, <<".", "w", "m", "v">>, <<".", "f", "l", "v">>,
     <<".", "w", "e", "b", "m">>, <<".", "m", "4", "v">>,
     <<".", "3", "g", "p">>, <<".", "j", "p", "g">>, <<".", "J", "P", "G">>,
     <<".", "j", "p", "e", "g">>, <<".", "p", "n", "g">>,
     <<".", "P", "N", "G">>, <<".", "g", "i", "f">>, <<".", "b", "m", "p">>,
     <<".", "w", "e", "b", "p">>, <<".", "p", "d", "f">>,
     <<".", "P", "D", "F">>, <<".", "z", "i", "p">>, <<".", "m", "p", "3">>,
     <<".", "m", "p", "4", ".", "c", "r", "d", "o", "w", "n", "l", "o", "a", "d">>,
     <<".", "p", "n", "g", ".", "p", "d", "f">>,
     <<".", "p", "d", "f", ".", "p", "n", "g">>, <<".", "m", "p">>,
     <<".", "m", "p", "4", "4">>, <<>>, <<".">>}

RecordedNames == {s \o e : s \in Stems, e \in Endings} \ {<<>>}

\* update_media_json is about to build the entry of one downloaded file.
InitClassify ==
    /\ file_path \in RecordedNames
    /\ file_content \in {<<ChatGD>>, <<ChatWT>>}
    /\ new_links = [t \in Threads |-> IF t = "main" THEN LinksOf(file_content) ELSE <<>>]
    /\ pc = [t \in Threads |-> IF t = "main" THEN "cl_entry" ELSE "idle"]
    /\ idx = [t \in Threads |-> IF t = "main" THEN 1 ELSE 0]
    /\ attempted = {CurrentUrl("main")}
    /\ success = [t \in Threads |-> t = "main"]
    /\ is_processing = TRUE
    /\ media_data = <<>>
    /\ variant = "backend"
    /\ page = NoPage
    /\ flow_log = <<>>
    /\ processing_lock = "free"
    /\ all_links = <<>>
    /\ file_mtime = 0
    /\ last_messages_content = <<>>
    /\ last_file_size = 0
    /\ last_modification_time = 0
    /\ media_file = NoFile
    /\ processed_links = {}
    /\ download_dir = EmptyDir
    /\ cur_stat = [t \in Threads |-> NoStat]
    /\ files_before = [t \in Threads |-> {}]
    /\ driver = [t \in Threads |-> FALSE]
    /\ sessions = 0
    /\ downloaded_files = [t \in Threads |-> {}]
    /\ initial_files = [t \in Threads |-> {}]
    /\ initial_sizes = [t \in Threads |-> EmptyDir]
    /\ phase = [t \in Threads |-> "none"]
    /\ pending_events = 0
    /\ last_event_age = DEBOUNCE_COOLDOWN
    /\ handler_sleep = 0
    /\ poll_sleep = 0
    /\ writes = 0
    /\ touch_rejected = FALSE
    /\ burst = 0
    /\ burst_clock = 0
    /\ gate_runs = 0
    /\ elapsed = 0
    /\ wake_at = 0
    /\ dir_events = {}
    /\ restarts = 0
    /\ read_failed = FALSE
    /\ failed_unchanged = {}

\* update_media_json, lines 180-220, for one file: its entry is appended to
\* media_data and the link is marked processed.
ClassifyFile ==
    /\ pc["main"] = "cl_entry"
    /\ media_data' = Append(media_data,
                            [source_link |-> CurrentUrl("main"),
                             mediaPath |-> file_path,
                             type |-> media_type(file_extension(file_path)),
                             file_size |-> Len(file_path)])
    /\ processed_links' = mark_link_processed(CurrentUrl("main"))
    /\ pc' = [pc EXCEPT !["main"] = "cl_done"]
    /\ UNCHANGED <<file_content, file_mtime, last_messages_content,
                   last_file_size, last_modification_time, media_file,
                   download_dir, is_processing, cur_stat, new_links, idx,
                   files_before, driver, sessions, success, downloaded_files,
                   initial_files, initial_sizes, phase, pending_events,
                   last_event_age, handler_sleep, poll_sleep, writes,
                   attempted, touch_rejected, burst, burst_clock, gate_runs,
                   elapsed, wake_at, dir_events, restarts, read_failed,
                   processing_lock, all_links, file_path, variant, page,
                   flow_log, failed_unchanged>>

SpecClassify == InitClassify /\ [][ClassifyFile]_vars

(* ------------- extract_links_from_messages over arbitrary messages ----- *)
MessageTypes == {"chat", "image", "sticker"}

\* Bodies: none, one link, a link twice, links of both providers in either
\* order and with punctuation, and words no pattern matches.
Bodies ==
    {<<>>, <<GD_URL>>, <<"hello">>, <<GD_URL, GD_URL>>, <<WT_URL, GD_URL>>,
     <<"hello", WT_URL_BRACKETS, GD_URL_DOT>>, <<GD_FOLDER, WT_HTTP>>,
     <<WT_URL, "hello", WT_URL>>}

Messages == [type : MessageTypes, body : Bodies]

\* process_new_links has read the messages and is about to extract.
InitExtract ==
    /\ file_content \in UNION {[1..n -> Messages] : n \in 0..MaxMsgs}
    /\ new_links = [t \in Threads |-> <<>>]
    /\ pc = [t \in Threads |-> IF t = "main" THEN "ex_call" ELSE "idle"]
    /\ idx = [t \in Threads |-> 0]
    /\ attempted = {}
    /\ success = [t \in Threads |-> FALSE]
    /\ is_processing = TRUE
    /\ media_data = <<>>
    /\ variant = "backend"
    /\ page = NoPage
    /\ flow_log = <<>>
    /\ processing_lock = "free"
    /\ all_links = <<>>
    /\ file_path = <<>>
    /\ file_mtime = 0
    /\ last_messages_content = <<>>
    /\ last_file_size = 0
    /\ last_modification_time = 0
    /\ media_file = NoFile
    /\ processed_links = {}
    /\ download_dir = EmptyDir
    /\ cur_stat = [t \in Threads |-> NoStat]
    /\ files_before = [t \in Threads |-> {}]
    /\ driver = [t \in Threads |-> FALSE]
    /\ sessions = 0
    /\ downloaded_files = [t \in Threads |-> {}]
    /\ initial_files = [t \in Threads |-> {}]
    /\ initial_sizes = [t \in Threads |-> EmptyDir]
    /\ phase = [t \in Threads |-> "none"]
    /\ pending_events = 0
    /\ last_event_age = DEBOUNCE_COOLDOWN
    /\ handler_sleep = 0
    /\ poll_sleep = 0
    /\ writes = 0
    /\ touch_rejected = FALSE
    /\ burst = 0
    /\ burst_clock = 0
    /\ gate_runs = 0
    /\ elapsed = 0
    /\ wake_at = 0
    /\ dir_events = {}
    /\ restarts = 0
    /\ read_failed = FALSE
    /\ failed_unchanged = {}

\* process_new_links, line 296: all_links = extract_links_from_messages(messages)
ExtractLinks ==
    /\ pc["main"] = "ex_call"
    /\ all_links' = LinksOf(file_content)
    /\ pc' = [pc EXCEPT !["main"] = "ex_done"]
    /\ UNCHANGED <<file_content, file_mtime, last_messages_content,
                   last_file_size, last_modification_time, processed_links,
                   media_file, download_dir, is_processing, cur_stat,
                   new_links, idx, files_before, driver, sessions, success,
                   downloaded_files, initial_files, initial_sizes, phase,
                   pending_events, last_event_age, handler_sleep, poll_sleep,
                   writes, attempted, touch_rejected, burst, burst_clock,
                   gate_runs, elapsed, wake_at, dir_events, media_data,
                   restarts, read_failed, processing_lock, file_path,
                   variant, page, flow_log, failed_unchanged>>

SpecExtract == InitExtract /\ [][ExtractLinks]_vars

(* ------- the message store replaced by a copy that keeps its times ----- *)
MaxMtime == 1    \* latest modification time a replacing copy carries

\* Chat messages without a link, of the same length.
NoteA == [type |-> "chat", body |-> <<"hello">>]
NoteB == [type |-> "chat", body |-> <<"hallo">>]
NoteContents == {<<>>, <<NoteA>>, <<NoteB>>}

\* The message store is replaced by a file with other content that carries its
\* own modification time (a copy that preserves times, a restore from a
\* backup, a writer whose clock was set back): the time is later than, equal
\* to or earlier than the one before.
ReplaceMessages ==
    /\ writes < MaxWrites
    /\ \E c \in NoteContents, mtime \in 0..MaxMtime :
          /\ c /= file_content
          /\ file_content' = c
          /\ file_mtime' = mtime
    /\ pending_events' \in Notified(pending_events)
    /\ writes' = writes + 1
    /\ failed_unchanged' = {}
    /\ UNCHANGED <<last_messages_content, last_file_size,
                   last_modification_time, processed_links, media_file,
                   download_dir, is_processing, pc, cur_stat, new_links, idx,
                   files_before, driver, sessions, success, downloaded_files,
                   initial_files, initial_sizes, phase, last_event_age,
                   handler_sleep, poll_sleep, attempted, touch_rejected,
                   burst, burst_clock, gate_runs, elapsed, wake_at,
                   dir_events, media_data, restarts, read_failed,
                   processing_lock, all_links, file_path, variant, page,
                   flow_log>>

\* The monitors over a link-free message store that is replaced at
\* arbitrary times by files carrying their own modification times.
NextReplace ==
    \/ ReplaceMessages
    \/ WatchStep

SpecReplace == InitWatch /\ [][NextReplace]_vars

(* ------- the detector over a directory whose reads fail at times -------- *)
\* line 508: time.sleep(0.5) after an exception, in tenths of a second.
ERROR_SLEEP == 5

\* lines 392-414 with a read that raises: the except clause of lines 403-404
\* prints; the snapshot holds what had been listed before the exception.
WaitStartFails ==
    /\ pc["main"] = "wd_init"
    /\ \E listed \in SUBSET Listing(download_dir) :
          /\ listed /= Listing(download_dir)
          /\ initial_files' = [initial_files EXCEPT !["main"] = listed]
          /\ initial_sizes' = [initial_sizes EXCEPT !["main"] =
                                 [n \in FileNames |->
                                    IF n \in listed THEN download_dir[n] ELSE ABSENT]]
    /\ elapsed' = 0
    /\ wake_at' = INITIAL_SLEEP
    /\ pc' = [pc EXCEPT !["main"] = "wd_poll"]
    /\ UNCHANGED <<file_content, file_mtime, last_messages_content,
                   last_file_size, last_modification_time, processed_links,
                   media_file, download_dir, is_processing, cur_stat,
                   new_links, idx, files_before, driver, sessions, success,
                   downloaded_files, phase, pending_events, last_event_age,
                   handler_sleep, poll_sleep, writes, attempted,
                   touch_rejected, burst, burst_clock, gate_runs, dir_events,
                   media_data, restarts, read_failed, processing_lock,
                   all_links, file_path, variant, page, flow_log,
                   failed_unchanged>>

\* lines 416-508: a pass of the loop in which glob, iterdir or stat raises;
\* the except clause of lines 506-508 prints and sleeps half a second.
WaitPassFails ==
    /\ pc["main"] = "wd_poll"
    /\ elapsed = wake_at
    /\ PhaseAt(elapsed) /= "late"
    /\ wake_at' = elapsed + ERROR_SLEEP
    /\ UNCHANGED <<file_content, file_mtime, last_messages_content,
                   last_file_size, last_modification_time, processed_links,
                   media_file, download_dir, is_processing, pc, cur_stat,
                   new_links, idx, files_before, driver, sessions, success,
                   downloaded_files, initial_files, initial_sizes, phase,
                   pending_events, last_event_age, handler_sleep, poll_sleep,
                   writes, attempted, touch_rejected, burst, burst_clock,
                   gate_runs, elapsed, dir_events, media_data, restarts,
                   read_failed, processing_lock, all_links, file_path,
                   variant, page, flow_log, failed_unchanged>>

\* lines 511-527 with a read that raises: the except clause of lines 524-525
\* prints and the method returns False.
WaitFinalFails ==
    /\ pc["main"] = "wd_final"
    /\ success' = [success EXCEPT !["main"] = FALSE]
    /\ pc' = [pc EXCEPT !["main"] = "dl_after"]
    /\ UNCHANGED <<file_content, file_mtime, last_messages_content,
                   last_file_size, last_modification_time, processed_links,
                   media_file, download_dir, is_processing, cur_stat,
                   new_links, idx, files_before, driver, sessions,
                   downloaded_files, initial_files, initial_sizes, phase,
                   pending_events, last_event_age, handler_sleep, poll_sleep,
                   writes, attempted, touch_rejected, burst, burst_clock,
                   gate_runs, elapsed, wake_at, dir_events, media_data,
                   restarts, read_failed, processing_lock, all_links,
                   file_path, variant, page, flow_log, failed_unchanged>>

\* The browser creates, writes or removes its partial file or the file of the
\* link while the call is waiting.
DirChanges ==
    /\ Waiting
    /\ \E n \in {PARTIAL_A, FINAL_A}, written \in {"none", "empty", "all"} :
          LET size == IF written = "none" THEN ABSENT
                      ELSE IF written = "empty" THEN 0 ELSE Len(n) IN
          /\ size /= download_dir[n]
          /\ download_dir' = [download_dir EXCEPT ![n] = size]
    /\ UNCHANGED <<file_content, file_mtime, last_messages_content,
                   last_file_size, last_modification_time, processed_links,
                   media_file, is_processing, pc, cur_stat, new_links, idx,
                   files_before, driver, sessions, success, downloaded_files,
                   initial_files, initial_sizes, phase, pending_events,
                   last_event_age, handler_sleep, poll_sleep, writes,
                   attempted, touch_rejected, burst, burst_clock, gate_runs,
                   elapsed, wake_at, dir_events, media_data, restarts,
                   read_failed, processing_lock, all_links, file_path,
                   variant, page, flow_log, failed_unchanged>>

\* A step of the thread that is inside the detector.
DetectorStep ==
    \/ WaitStart
    \/ WaitStartFails
    \/ WaitTick
    \/ WaitPass
    \/ WaitPassFails
    \/ WaitRecheck
    \/ WaitFinal
    \/ WaitFinalFails

NextStuck ==
    \/ DirChanges
    \/ DetectorStep

\* One call of the detector over a directory that changes at arbitrary
\* times and whose reads fail at arbitrary times; the thread of the call
\* keeps running.
SpecStuck == InitWait /\ [][NextStuck]_vars /\ WF_vars(DetectorStep)

(* ----------- the message stream carrying the same link twice ----------- *)

\* The same link is posted again: one more chat message, equal to the message
\* before it.
RepeatMessage ==
    /\ file_content /= <<>>
    /\ Len(file_content) < MaxMsgs
    /\ file_content' = Append(file_content, file_content[Len(file_content)])
    /\ file_mtime' = file_mtime + 1
    /\ pending_events' \in Notified(pending_events)
    /\ writes' = writes + 1
    /\ failed_unchanged' = {}
    /\ UNCHANGED <<last_messages_content, last_file_size,
                   last_modification_time, processed_links, media_file,
                   download_dir, is_processing, pc, cur_stat, new_links, idx,
                   files_before, driver, sessions, success, downloaded_files,
                   initial_files, initial_sizes, phase, last_event_age,
                   handler_sleep, poll_sleep, attempted, touch_rejected,
                   burst, burst_clock, gate_runs, elapsed, wake_at,
                   dir_events, media_data, restarts, read_failed,
                   processing_lock, all_links, file_path, variant, page,
                   flow_log>>

\* The program over a message stream in which a link may be posted again.
NextRepeat ==
    \/ RepeatMessage
    \/ Next

SpecRepeat == Init /\ [][NextRepeat]_vars

(* ------------ process_new_links(force=True) called at any time --------- *)

\* process_new_links, lines 278-285, called with force=True by a caller that
\* does not wait for the monitors to be idle (here the main thread, after its
\* start-up run has returned): the busy test of line 281 does not apply to it.
ForcedCall ==
    /\ pc["main"] = "done"
    /\ Accepted("main")
    /\ EnterProcessing("main")
    /\ UNCHANGED <<file_content, file_mtime, last_messages_content,
                   last_file_size, last_modification_time, processed_links,
                   media_file, download_dir, cur_stat, new_links, idx,
                   files_before, driver, sessions, success, downloaded_files,
                   initial_files, initial_sizes, phase, pending_events,
                   last_event_age, handler_sleep, poll_sleep, writes,
                   attempted, touch_rejected, burst, burst_clock, gate_runs,
                   elapsed, wake_at, dir_events, media_data, restarts,
                   read_failed, processing_lock, all_links, file_path,
                   variant, page, flow_log, failed_unchanged>>

\* The monitors over a link-free message store that is rewritten, with
\* process_new_links(force=True) as an operation that may be called again
\* while they are running.
NextForced ==
    \/ ForcedCall
    \/ Extract("main")
    \/ UpdateState("main")
    \/ Finish("main")
    \/ RewriteLinkFree
    \/ WatchStep

SpecForced == InitWatch /\ [][NextForced]_vars

(* ============================== properties ============================= *)
\* A thread is inside the processing body of process_new_links.
InBody(t) == pc[t] \notin {"idle", "sleep", "dropped", "start", "done"}

AttemptPcs == {"dl_open", "dl_flow", "wd_init", "wd_poll", "wd_recheck",
               "wd_final", "dl_after", "dl_update", "dl_cleanup"}

RangeOf(seq) == {seq[i] : i \in 1..Len(seq)}

\* The entries of the persisted catalog.
Persisted == CatalogEntries(media_file)

CatalogLinks == {Persisted[i].source_link : i \in 1..Len(Persisted)}

\* C1: the event callback and the poll loop, both calling
\* process_new_links() without force, are never inside the processing body
\* at the same time, and whoever is inside holds the busy flag; a trigger
\* that collides is dropped.
C1_SingleFlight ==
    /\ \A t1, t2 \in Workers : t1 /= t2 => ~(InBody(t1) /\ InBody(t2))
    /\ \A t \in Workers : InBody(t) => is_processing

\* A trigger of one worker has been dropped while the other is in the body.
C1_Witness ==
    \E t1, t2 \in Workers :
        t1 /= t2 /\ InBody(t1) /\ pc[t2] = "dropped"

\* has_file_changed() would return True now.
GateOpen ==
    /\ ~QuickUnchanged([mtime |-> file_mtime, size |-> StSize(file_content)])
    /\ ContentChanged(file_content)

\* C2: a link that the message store gained while a run was in progress is
\* picked up after that run without another modification of the store:
\* whenever no run is in progress and the store holds a link for which
\* download_link has never been called, the change check is still open, so
\* the next event or poll trigger attempts the link.
C2_MissedLinkPickedUp ==
    \A u \in URLS :
        ( /\ MonitorsStarted
          /\ \A t \in Threads : ~InBody(t)
          /\ u \in RangeOf(extract_links_from_messages(file_content))
          /\ u \notin attempted )
        => GateOpen

C3_Step ==
    Persisted' /= Persisted =>
        /\ Len(Persisted') > Len(Persisted)
        /\ SubSeq(Persisted', 1, Len(Persisted)) = Persisted
        /\ \A i \in (Len(Persisted) + 1)..Len(Persisted') :
              /\ Persisted'[i].source_link \notin CatalogLinks
              /\ \A j \in (Len(Persisted) + 1)..Len(Persisted') :
                    Persisted'[i].mediaPath = Persisted'[j].mediaPath => i = j

DetectorReports(t) ==
    /\ pc[t] \in {"wd_poll", "wd_recheck", "wd_final"}
    /\ pc'[t] = "dl_after"
    /\ success'[t]

\* A complete file that is new or has grown since the detector's snapshot.
CompleteArtifact(t) ==
    \E n \in Listing(download_dir) :
        /\ ~IsPartial(n)
        /\ n \notin initial_files[t] \/ download_dir[n] > initial_sizes[t][n]

\* C4: a file with the partial-download marker is never treated as the
\* completed artifact: the detector reports success only when a complete
\* file is new or has grown, at a poll tick as in the final rescan, and no
\* catalog entry references a partial file.
C4_Step ==
    /\ \A t \in Threads : DetectorReports(t) => CompleteArtifact(t)
    /\ \A i \in 1..Len(Persisted') : ~IsPartial(Persisted'[i].mediaPath)

\* C4: no step reports or records a partial file as the completed artifact.
C4_PartialNeverFinal == [][C4_Step]_vars

C6_Step ==
    Persisted' /= Persisted =>
        \E t \in Threads :
            /\ pc[t] = "dl_update"
            /\ success[t]
            /\ phase[t] /= "none"
            /\ SubSeq(Persisted', 1, Len(Persisted)) = Persisted
            /\ \A i \in (Len(Persisted) + 1)..Len(Persisted') :
                  Persisted'[i].source_link = CurrentUrl(t)

\* C6: every step that changes the catalog is taken after the detector's
\* success in the same attempt.
C6_EntryOnlyAfterSuccess == [][C6_Step]_vars

\* An entry has been written for the link of a successful attempt.
C6_Witness ==
    \E t \in Threads :
        pc[t] = "dl_cleanup" /\ success[t] /\ CurrentUrl(t) \in CatalogLinks

\* C7: a run of the event handler or of the poll loop goes from the change
\* check on to link extraction only if the bytes of the message store
\* differ from the stored snapshot; a touch never does.
C7_Step ==
    \A t \in Workers :
        (pc[t] \in {"gate_stat", "gate_read"} /\ pc'[t] = "extract")
            => file_content /= last_messages_content

\* C7: no step takes a run past the change check over identical bytes.
C7_TouchDoesNotTrigger == [][C7_Step]_vars

\* A change check has met new stat data over identical bytes and ended
\* the run; no run has reached extraction for it.
C7_Witness ==
    /\ touch_rejected
    /\ file_content = last_messages_content
    /\ file_mtime = last_modification_time
    /\ file_mtime > 0
    /\ \A t \in Workers : pc[t] \notin {"extract", "update_state"}

EventAccepted == pc["event"] = "idle" /\ pc'["event"] = "sleep"

\* C8 (amended): within the debounce window of a burst the event handler
\* accepts at most one event, every further event handled less than 3
\* seconds after it is discarded; runs of the poll loop and of events
\* handled later are not debounced and may pass the change check again.
C8_Step ==
    (EventAccepted /\ burst >= 1 /\ burst_clock < DEBOUNCE_COOLDOWN)
        => last_event_age > burst_clock

C9_OneSession ==
    /\ sessions <= 1
    /\ Cardinality({t \in Threads : driver[t]}) <= 1

\* The second of two different unseen links of one run has its session
\* while the first link's attempt, which succeeded, is over.
C9_Witness ==
    \E t \in Threads :
        /\ idx[t] = 2
        /\ driver[t]
        /\ Len(new_links[t]) >= 2
        /\ new_links[t][1] /= new_links[t][2]
        /\ is_link_processed(new_links[t][1])

\* C10: outside download_link no thread holds a driver, and when no thread
\* is in download_link no browser session is live.
C10_SessionClosedOnReturn ==
    /\ \A t \in Threads : pc[t] \notin AttemptPcs => ~driver[t]
    /\ (\A t \in Threads : pc[t] \notin AttemptPcs) => sessions = 0

\* The attempt for the first link had a browser (it left the link's file),
\* did not succeed, and has returned with the session closed.
C10_Witness ==
    \E t \in Threads :
        /\ pc[t] = "loop"
        /\ idx[t] >= 2
        /\ sessions = 0
        /\ FileOf(new_links[t][1]) \in Listing(download_dir)
        /\ ~is_link_processed(new_links[t][1])

(* ================= claims on the completion detector =================== *)
\* The timed call of wait_for_download_completion has returned.
Returned == pc["main"] = "dl_after"

C12_GrowthSuccess ==
    Returned /\ "grown" \in dir_events /\ dir_events \subseteq {"grown", "grown_late"}
        => success["main"]

\* C13: as long as nothing has happened to the download directory since
\* the snapshot, the call has not reported success, and when it returns it
\* returns failure, at or after the timeout.
C13_UnchangedDirectoryFails ==
    dir_events = {} =>
        /\ ~success["main"]
        /\ Returned => elapsed >= WaitTimeout

\* The call has returned failure over a directory that held a complete
\* file when the snapshot was taken and has not changed since.
C13_Witness ==
    /\ Returned
    /\ dir_events = {}
    /\ ~success["main"]
    /\ \E n \in initial_files["main"] : ~IsPartial(n) /\ ~IsHidden(n)

C14_Step ==
    pc["main"] /= "dl_after" /\ pc'["main"] = "dl_after" /\ ~success'["main"]
        => /\ pc["main"] = "wd_final"
           /\ elapsed >= WaitTimeout
           /\ FinalNewFiles(download_dir, initial_files["main"]) = {}

C15_RecordedLinkStaysProcessed ==
    \A u \in URLS : u \in CatalogLinks => is_link_processed(u)

\* The program has been started again after an update wrote the entry of
\* the WeTransfer link, which no catalog of the first start holds; the
\* fresh manager has attempted nothing and has the link as processed.
C15_Witness ==
    /\ restarts >= 1
    /\ attempted = {}
    /\ pc["main"] = "idle"
    /\ WT_URL \in CatalogLinks
    /\ is_link_processed(WT_URL)

C17_Step ==
    media_file' /= media_file /\ CatalogReadable(media_file)
        => json_parses(media_file')

\* C17: every step that changes a catalog file holding a complete list
\* (or creates the file) leaves a file that holds a complete list again,
\* the previous one or the new one; the file is never left empty or cut
\* off, whether the write goes on, fails or the process is killed.
C17_AtomicRewrite == [][C17_Step]_vars

\* C20: no start of the program ends in load_processed_links; a manager
\* that has started over a catalog file that does not parse, and has
\* attempted nothing yet, has an empty processed set and is ready for
\* triggers, for which every link of the message store is unseen.
C20_UnparsableCatalogStartsEmpty ==
    /\ pc["main"] /= "crashed"
    /\ attempted = {} /\ ~CatalogReadable(media_file) =>
          /\ processed_links = {}
          /\ pc["main"] = "idle"
          /\ \A u \in URLS : ~is_link_processed(u)

\* After a start over a catalog file that does not parse, a trigger has
\* been accepted and the download of a link has succeeded.
C20_Witness ==
    /\ ~CatalogReadable(media_file)
    /\ pc["main"] = "dl_update"
    /\ attempted = {CurrentUrl("main")}
    /\ processed_links = {}

(* ======================= claims on the orchestrator ==================== *)
\* C16: when download_link reaches its finally clause after the detector
\* reported success for the link, the catalog holds an entry for that
\* link.
C16_SuccessIsRecorded ==
    \A t \in Threads :
        pc[t] = "dl_cleanup" /\ success[t] => CurrentUrl(t) \in CatalogLinks

\* C18: after a run has read the message store while it was being
\* written, the completed content is still picked up: whenever no run is
\* in progress and the completed store holds a link for which
\* download_link has never been called, the change check is open, so the
\* next event or poll trigger attempts the link without another write.
C18_TornReadRetried ==
    \A u \in URLS :
        ( /\ read_failed
          /\ \A t \in Threads : ~InBody(t)
          /\ ~IsTorn(file_content)
          /\ u \in RangeOf(extract_links_from_messages(file_content))
          /\ u \notin attempted )
        => GateOpen

C19_Step ==
    \A t \in Threads :
        /\ pc[t] \in AttemptPcs /\ pc'[t] \notin AttemptPcs
              => /\ pc'[t] = "loop"
                 /\ idx'[t] = idx[t] + 1
                 /\ new_links'[t] = new_links[t]
        /\ pc[t] = "loop" /\ pc'[t] \in AttemptPcs
              => /\ idx[t] <= Len(new_links[t])
                 /\ idx'[t] = idx[t]
                 /\ new_links'[t][idx[t]] \in attempted'
        /\ pc[t] = "loop" /\ pc'[t] \notin AttemptPcs \cup {"loop"}
              => /\ idx[t] > Len(new_links[t])
                 /\ pc'[t] = "update_state"
        /\ InBody(t) /\ pc'[t] \in {"idle", "sleep", "dropped", "start", "done"}
              => /\ pc[t] = "finish"
                 /\ ~is_processing'

\* C19: however the attempt for a link ends (failure, exception, success),
\* the run goes on with the next unseen link in order; the loop is left
\* only after the last link, for update_file_state, and the thread leaves
\* the body only through the finally clause, back to its callback or poll
\* loop.
C19_LinkFailureContained == [][C19_Step]_vars

\* The first of two different unseen links was attempted and is still
\* unprocessed (its attempt failed or raised); the attempt for the second
\* link has begun.
C19_Witness ==
    \E t \in Workers :
        /\ pc[t] = "dl_open"
        /\ idx[t] = 2
        /\ new_links[t][1] /= new_links[t][2]
        /\ {new_links[t][1], new_links[t][2]} \subseteq attempted
        /\ ~is_link_processed(new_links[t][1])

(* ------------------------------- C21 ----------------------------------- *)
\* The next step of the thread is update_media_json, which reads and
\* rewrites the catalog file, or the listing of the download directory
\* after a successful download (download_link, line 255).
AtSharedAccess(t) ==
    \/ pc[t] = "dl_update"
    \/ pc[t] = "dl_after" /\ Succeeded(t)

\* C21: every read or write of the catalog file and every scan of the
\* download directory by the orchestrator is done by a thread that holds
\* processing_lock.
C21_AccessUnderLock ==
    \A t \in Threads : AtSharedAccess(t) => processing_lock = t

(* ------------------------------- C22 ----------------------------------- *)
\* The flow has called wait_for_download_completion or is about to.
DetectorEntered ==
    \/ pc["main"] \in {"gd_wait", "se_wait1", "se_wait2", "se_wait3", "wt_wait"}
    \/ \E i \in 1..Len(flow_log) : flow_log[i].op = "wait"

\* The entries of flow_log after the navigation to the direct download URL.
AfterDirect ==
    LET at == {i \in 1..Len(flow_log) : flow_log[i] = Navigated("direct")}
    IN IF at = {} THEN <<>>
       ELSE SubSeq(flow_log, (CHOOSE i \in at : TRUE) + 1, Len(flow_log))

\* C22: when the page reached by the direct download URL says quota exceeded
\* or access denied, the attempt fails immediately: no bypass step, no
\* further navigation, no wait in the completion detector.
C22_PolicyPageIsTerminal ==
    page.kind \in {"quota", "denied"} =>
        /\ pc["main"] = "fl_done"
        /\ ~success["main"]
        /\ AfterDirect = <<>>

(* ------------------------------- C23 ----------------------------------- *)
\* The bypass of the virus warning page has been tried and no step of it
\* acted: no element was clicked or navigated to, and in the selenium file
\* the navigation to the confirm URL raised.
BypassFailed ==
    /\ page.kind = "virus"
    /\ pc["main"] \notin {"gd_bypass", "se_bypass"}
    /\ IF variant = "backend"
       THEN ~BypassClicks(download_anyway_selectors, page.elements, 1).acted
       ELSE /\ ~Method1(download_selectors, page.elements, 1).acted
            /\ \E i \in 1..Len(flow_log) :
                  flow_log[i] = Did("get", "bypass", 0, 0, "raised")

\* C23: on a virus warning page, if every bypass step fails to act, the
\* attempt ends in failure at once, without further navigation and without
\* entering the completion detector.
C23_FailedBypassIsTerminal ==
    BypassFailed =>
        /\ pc["main"] = "fl_done"
        /\ ~success["main"]
        /\ ~DetectorEntered
        /\ \A i \in 1..Len(flow_log) : flow_log[i].step /= "alt"

(* ------------------------------- C24 ----------------------------------- *)
T_scan == <<"s", "c", "a", "n">>

\* A text in lower case.
LowerCase(s) ==
    translate(s, <<"A", "C", "D", "E", "G", "I", "L", "N", "O", "R", "S", "W">>,
                 <<"a", "c", "d", "e", "g", "i", "l", "n", "o", "r", "s", "w">>)

\* A text without its leading and trailing blanks.
RECURSIVE Trimmed(_)
Trimmed(s) ==
    IF s = <<>> THEN s
    ELSE IF Head(s) = " " THEN Trimmed(Tail(s))
    ELSE IF s[Len(s)] = " " THEN Trimmed(SubSeq(s, 1, Len(s) - 1))
    ELSE s

IsPlainDownload(e) == Trimmed(LowerCase(e.text)) = T_download
MentionsScan(e) == contains(LowerCase(e.text), T_scan)

\* The elements the download step of the WeTransfer flow clicked.
DownloadClicks ==
    {flow_log[i].el : i \in {j \in 1..Len(flow_log) :
                                flow_log[j].op = "click" /\ flow_log[j].step = "download"}}

\* C24: in the WeTransfer flow the download click is made only on an
\* element whose case-normalized, trimmed text is exactly "download"; an
\* element whose text also contains "scan" is never clicked, and without
\* an exact match the flow fails instead of clicking one.
C24_OnlyExactDownloadClicked ==
    /\ \A i \in DownloadClicks :
          IsPlainDownload(page.elements[i]) /\ ~MentionsScan(page.elements[i])
    /\ (/\ page.kind = "transfer"
        /\ pc["main"] \in {"wt_wait", "fl_done"}
        /\ \A i \in 1..Len(page.elements) : ~IsPlainDownload(page.elements[i]))
          => /\ pc["main"] = "fl_done"
             /\ ~success["main"]
             /\ DownloadClicks = {}

\* Reached: a usable "Scan and download" button stands before the plain
\* download link and the link was clicked; and, on another page, only
\* the combined button is there and the flow has failed.
C24_Witness ==
    /\ page.kind = "transfer"
    /\ Len(page.elements) = 2
    /\ MentionsScan(page.elements[1])
    /\ page.elements[1].displayed /\ page.elements[1].enabled
    /\ \/ /\ pc["main"] = "wt_wait"
          /\ DownloadClicks = {2}
       \/ /\ pc["main"] = "fl_done"
          /\ MentionsScan(page.elements[2])
          /\ page.elements[2].click = "ok"

(* ------------------------------- C30 ----------------------------------- *)
\* The matcher s of a step of the flows, applied to element e.
StepMatches(step, s, e) ==
    IF step = "bypass"
    THEN Matches((IF variant = "backend" THEN download_anyway_selectors
                  ELSE download_selectors)[s], e)
    ELSE IF step = "cookie" THEN Matches(cookie_selectors[s], e)
    ELSE IF step = "agree" THEN agree_xpath(e)
    ELSE exact_download_xpath(e)

Usable(e) == e.displayed /\ e.enabled

\* The number of matchers of a step.
MatcherCount(step) ==
    IF step = "bypass"
    THEN (IF variant = "backend" THEN Len(download_anyway_selectors)
          ELSE Len(download_selectors))
    ELSE IF step = "cookie" THEN Len(cookie_selectors)
    ELSE 1

\* The click is on the element of the first usable match, in matcher
\* order and then document order.
FirstInOrder(c) ==
    LET pairs == {p \in (1..MatcherCount(c.step)) \X (1..Len(page.elements)) :
                     /\ StepMatches(c.step, p[1], page.elements[p[2]])
                     /\ Usable(page.elements[p[2]])}
    IN /\ pairs /= {}
       /\ \A q \in pairs :
             \/ q[2] = c.el
             \/ \E p \in pairs :
                   p[2] = c.el /\ (p[1] < q[1] \/ (p[1] = q[1] /\ p[2] < q[2]))

\* C30: in every DOM-lookup step of both flows at most one element is acted
\* on, the first visible and enabled one in matcher order and then document
\* order; a disabled element is never clicked and no second element is
\* clicked in the same step.
C30_OneUsableElementPerStep ==
    \A i, j \in 1..Len(flow_log) :
        flow_log[i].op = "click" =>
            /\ Usable(page.elements[flow_log[i].el])
            /\ FirstInOrder(flow_log[i])
            /\ (flow_log[j].op = "click" /\ flow_log[j].step = flow_log[i].step)
                  => flow_log[j].el = flow_log[i].el

(* ------------------------------- C25 ----------------------------------- *)
\* The name ends in one of the endings, whatever the case of its letters.
EndsIn(chars, endings) ==
    \E e \in endings :
        /\ Len(chars) > Len(e)
        /\ lower(SubSeq(chars, Len(chars) - Len(e) + 1, Len(chars))) = e

\* C25: update_media_json classifies every recorded file by its lower-cased
\* extension: one of the video set (.mp4) gives "video", one of the image
\* set (.png) gives "image", every other extension (.pdf) gives "document".
C25_ClassifiedByExtension ==
    \A i \in 1..Len(media_data) :
        LET name == media_data[i].mediaPath
            ext == lower(suffix(name))
        IN /\ ext \in video_extensions => media_data[i].type = "video"
           /\ ext \in image_extensions => media_data[i].type = "image"
           /\ ext \notin (video_extensions \cup image_extensions)
                 => media_data[i].type = "document"
           /\ EndsIn(name, {<<".", "m", "p", "4">>}) => media_data[i].type = "video"
           /\ EndsIn(name, {<<".", "p", "n", "g">>}) => media_data[i].type = "image"
           /\ EndsIn(name, {<<".", "p", "d", "f">>}) => media_data[i].type = "document"

\* Reached: a file spelled with an upper-case video extension has been
\* recorded as a video.
C25_Witness ==
    /\ pc["main"] = "cl_done"
    /\ Len(media_data) = 1
    /\ media_data[1].mediaPath = <<"c", "l", "i", "p", ".", "M", "P", "4">>
    /\ media_data[1].type = "video"

\* The link a word of a body stands for: the two links as spelled, followed
\* by punctuation or in brackets.
Carries(word) ==
    IF word \in {GD_URL, GD_URL_DOT} THEN GD_URL
    ELSE IF word \in {WT_URL, WT_URL_BRACKETS} THEN WT_URL
    ELSE ""

\* Occurrences of url in the bodies of the chat messages.
OccurrencesIn(url, messages) ==
    Cardinality({<<i, j>> \in (DOMAIN messages) \X (1..3) :
                    /\ messages[i].type = "chat"
                    /\ j \in DOMAIN messages[i].body
                    /\ Carries(messages[i].body[j]) = url})

\* C26: the links extract_links_from_messages returns are links, each as
\* many times as it occurs in the bodies of the messages of type "chat";
\* messages of other types and messages without body contribute nothing,
\* and a repeated link is returned once per occurrence.
C26_LinksOnlyFromChatBodies ==
    pc["main"] = "ex_done" =>
        /\ \A k \in DOMAIN all_links : all_links[k] \in URLS
        /\ \A url \in URLS :
              Cardinality({k \in DOMAIN all_links : all_links[k] = url})
                  = OccurrencesIn(url, file_content)

\* A store with a link in a message of another type and a chat message with
\* the same link twice: two links are returned.
C26_Witness ==
    /\ pc["main"] = "ex_done"
    /\ \E i, j \in DOMAIN file_content :
          /\ file_content[i] = [type |-> "image", body |-> <<GD_URL>>]
          /\ file_content[j] = [type |-> "chat", body |-> <<GD_URL, GD_URL>>]
    /\ all_links = <<GD_URL, GD_URL>>

\* The detector of thread t returns to download_link.
DetectorReturns(t) ==
    /\ pc[t] \in {"wd_poll", "wd_recheck", "wd_final"}
    /\ pc'[t] = "dl_after"

\* Complete files in the download directory that the listing taken before
\* the attempt (files_before) does not have.
DepositedSinceAttempt(t) ==
    {n \in Listing(download_dir) \ files_before[t] : ~IsPartial(n)}

\* C27: whenever the detector returns while the download directory holds a
\* complete file that was not there when the attempt began, it returns
\* True, whether the file arrived before or after the detector started.
C27_DepositedFileIsNew ==
    [][\A t \in Threads :
          DetectorReturns(t) /\ DepositedSinceAttempt(t) /= {} => success'[t]]_vars

\* update_media_json runs to its write or to its except clause.
UpdateRuns ==
    /\ pc["main"] = "dl_update"
    /\ restarts' = restarts
    /\ pc'["main"] /= "dl_update"

\* C28: when update_media_json finds a catalog file that does not parse, it
\* goes on as with an empty catalog: the entry of the download is in the
\* data it is about to write and the link is marked processed.
C28_UnparsableCatalogIsEmpty ==
    [][UpdateRuns /\ ~CatalogReadable(media_file) =>
          /\ md5(CurrentUrl("main")) \in processed_links'
          /\ pc'["main"] = "cat_open"
          /\ \E i \in DOMAIN media_data' :
                media_data'[i].source_link = CurrentUrl("main")]_vars

\* has_file_changed of thread t makes its quick check.
QuickCheck(t) == pc[t] = "gate_stat" /\ pc'[t] /= "gate_stat"

\* The stat of the message store differs from the stored one, in whatever
\* direction.
StatDiffers ==
    \/ file_mtime /= last_modification_time
    \/ StSize(file_content) /= last_file_size

\* The stored size is the size of the stored snapshot.
SnapshotOfOneFile == last_file_size = StSize(last_messages_content)

\* C29: when the quick check finds a modification time or a size other than
\* the stored one and the content is not the snapshot's, the run goes on to
\* read and compare the content, and the changed content passes the gate.
C29_DifferingStatIsReRead ==
    [][\A t \in Workers :
          /\ QuickCheck(t) /\ SnapshotOfOneFile /\ StatDiffers
               /\ file_content /= last_messages_content
               => pc'[t] = "gate_read"
          /\ pc[t] = "gate_read" /\ pc'[t] /= "gate_read"
               /\ file_content /= last_messages_content
               => pc'[t] = "extract"]_vars

(* ============================ claims C31..C40 ========================== *)
\* A call of thread t is skipped, or the skipped call returns.
SkipStep(t) ==
    \/ pc[t] /= "dropped" /\ pc'[t] = "dropped"
    \/ pc[t] = "dropped" /\ pc'[t] /= "dropped"

\* C31: a call without force that finds the busy flag set returns and
\* leaves WatchState, the processed set, the catalog file and the busy flag
\* as they are; no event is queued for it and its thread is idle again
\* without having entered the body.
C31_SkippedCallChangesNothing ==
    [][\A t \in Workers :
          SkipStep(t) =>
             /\ UNCHANGED <<last_modification_time, last_file_size,
                            last_messages_content, processed_links,
                            media_file, media_data, is_processing,
                            pending_events>>
             /\ pc[t] = "dropped" => pc'[t] = "idle"]_vars

\* A call of one worker has just been skipped while the other worker is
\* downloading under the busy flag.
C31_Witness ==
    \E t1, t2 \in Workers :
        /\ t1 /= t2
        /\ pc[t1] \in {"dl_flow", "wd_poll", "dl_update"}
        /\ pc[t2] = "dropped"
        /\ is_processing

\* C32: a call of wait_for_download_completion returns, and its clock never
\* passes the timeout by a full sleep of the loop (one second), whatever
\* appears in the directory, with a partial file that stays and with reads
\* that fail.
C32_DetectorReturns ==
    /\ [](elapsed < WaitTimeout + PARTIAL_SLEEP)
    /\ <>(pc["main"] = "dl_after")

\* The call has returned after the timeout while the partial file is still
\* in the directory.
C32_Witness ==
    /\ pc["main"] = "dl_after"
    /\ elapsed >= WaitTimeout
    /\ download_dir[PARTIAL_A] /= ABSENT

\* update_media_json, having opened the catalog file for writing, returns.
RewriteEnds ==
    /\ pc["main"] = "cat_dump"
    /\ pc'["main"] = "idle"
    /\ restarts' = restarts

\* The entries the rewrite in progress loaded from the catalog file: those
\* of media_data that are not of the link of the attempt.
LoadedEntries ==
    SelectSeq(media_data, LAMBDA e : e.source_link /= CurrentUrl("main"))

\* C33: when a rewrite of the catalog file ends, the entries the file held
\* before are the first entries of the file, unchanged and in their order.
C33_RewriteKeepsEntries ==
    [][RewriteEnds =>
          /\ Len(CatalogEntries(media_file')) >= Len(LoadedEntries)
          /\ SubSeq(CatalogEntries(media_file'), 1, Len(LoadedEntries))
                = LoadedEntries]_vars

\* The places of flow_log that hold an attempt of the bypass.
BypassAt == {j \in 1..Len(flow_log) : flow_log[j].step = "bypass"}

\* The attempt of a bypass entry took effect: a navigation that returned, a
\* click that returned, a click by script after the click raised.
Acted(c) ==
    \/ c.op = "get" /\ c.how \in {"href", "token"}
    \/ c.op = "click" /\ c.how = "native" /\ page.elements[c.el].click = "ok"
    \/ c.op = "click" /\ c.how = "script"
          /\ page.elements[c.el].click = "native_raises"

\* Entry c comes before entry d in the order of the bypass: selector by
\* selector, within a selector element by element, within an element the
\* click before the click by script; the confirm URL built from the token
\* (selector 0) comes last.
InBypassOrder(c, d) ==
    IF c.sel = 0 THEN FALSE
    ELSE IF d.sel = 0 THEN TRUE
    ELSE \/ c.sel < d.sel
         \/ c.sel = d.sel /\ c.el < d.el
         \/ c.sel = d.sel /\ c.el = d.el /\ c.how = "native" /\ d.how = "script"

\* C34: on a virus warning page the attempts of the bypass are made in the
\* order of the selectors and steps, and an attempt that took effect is the
\* last one: nothing of the bypass is tried after it.
C34_FirstActingStepEndsBypass ==
    \A j, k \in BypassAt :
        j < k => InBypassOrder(flow_log[j], flow_log[k]) /\ ~Acted(flow_log[j])

\* The bypass has acted on a page that holds a further displayed match, of
\* the same or of a later selector, which was left alone.
C34_Witness ==
    \E j \in BypassAt :
        /\ Acted(flow_log[j])
        /\ \E s \in flow_log[j].sel..MatcherCount("bypass"),
              i \in 1..Len(page.elements) :
              /\ i /= flow_log[j].el
              /\ flow_log[j].sel > 0
              /\ StepMatches("bypass", s, page.elements[i])
              /\ page.elements[i].displayed
              /\ s > flow_log[j].sel \/ i > flow_log[j].el

\* The WeTransfer page holds no element that a cookie selector or the agree
\* test finds.
NoOptionalElement ==
    /\ page.kind = "transfer"
    /\ \A i \in 1..Len(page.elements) :
          /\ \A s \in 1..Len(cookie_selectors) :
                ~Matches(cookie_selectors[s], page.elements[i])
          /\ ~agree_xpath(page.elements[i])

\* The first displayed and enabled element with the exact download text.
DownloadElement ==
    FirstUsable(page.elements,
                {j \in DOMAIN page.elements : exact_download_xpath(page.elements[j])})

\* C35: on a WeTransfer page without cookie and agree elements the two
\* steps click nothing and end nothing: the flow is never over before the
\* download step, and once it is past that step the page's download
\* element, if there is one, has been clicked.
C35_OptionalStepsSkipped ==
    NoOptionalElement =>
        /\ \A j \in 1..Len(flow_log) : flow_log[j].step \notin {"cookie", "agree"}
        /\ pc["main"] \in {"wt_wait", "fl_done"} /\ DownloadElement /= 0 =>
              \E j \in 1..Len(flow_log) :
                  flow_log[j] = Did("click", "download", 1, DownloadElement, "script")
        /\ pc["main"] = "fl_done" /\ DownloadElement /= 0
              /\ page.elements[DownloadElement].click /= "both_raise" =>
              \E j \in 1..Len(flow_log) : flow_log[j].op = "wait"

\* Both steps were skipped on a page that holds the download element only,
\* and the flow is waiting for the download after its click.
C35_Witness ==
    /\ NoOptionalElement
    /\ Len(page.elements) = 1
    /\ pc["main"] = "wt_wait"
    /\ flow_log = <<Navigated("link"), Did("click", "download", 1, 1, "script")>>

\* C36: a call of process_new_links that has set the busy flag leaves the
\* body with the flag cleared, whichever way it leaves; the flag is set
\* only while a call is in the body, so triggers after the end of a run are
\* not skipped for a flag that nobody will clear.
C36_FlagClearedOnExit ==
    /\ [][\A t \in Threads : InBody(t) /\ ~InBody(t)' => ~is_processing']_vars
    /\ [](is_processing => \E t \in Threads : InBody(t))

\* The forced run of main has attempted a link and has ended, and a later
\* call of the poll loop, without force, has been accepted.
C36_Witness ==
    /\ pc["main"] = "done"
    /\ attempted /= {}
    /\ pc["poll"] = "gate_stat"
    /\ is_processing

Attempting(t) ==
    pc[t] \in {"dl_open", "dl_flow", "wd_init", "wd_poll", "wd_recheck",
               "wd_final", "dl_after", "dl_update", "dl_cleanup"}

\* C38: within one run of process_new_links no link is attempted that
\* stands at an earlier position of the run's list as well (a link
\* unprocessed now was unprocessed then, so that position was attempted).
C38_OneAttemptPerUrlPerRun ==
    \A t \in Threads :
        Attempting(t) =>
            \A j \in 1..(idx[t] - 1) : new_links[t][j] /= CurrentUrl(t)

BeginsAttempt(t) ==
    /\ pc[t] = "loop"
    /\ idx[t] <= Len(new_links[t])
    /\ ~is_link_processed(CurrentUrl(t))
    /\ pc'[t] = "dl_open" \/ idx'[t] = idx[t] + 1

\* C40: a call of process_new_links made by a monitor never begins an
\* attempt of a link whose last attempt failed unless the content of the
\* message store has changed since that failure.
C40_FailedLinkWaitsForChange ==
    [][\A t \in Workers :
          BeginsAttempt(t) => CurrentUrl(t) \notin failed_unchanged]_vars

====
